---- MODULE Spec2Model ----
(***************************************************************************)
(* The training / inference orchestrator of the Graph Tsetlin Machine      *)
(* (GraphTsetlinMachine/tm.py, class CommonTsetlinMachine and its          *)
(* MultiOutput subclass with one output column), as a state machine.       *)
(*                                                                         *)
(* The variables are the fields of one model instance, host side and       *)
(* device side, plus the position of the running fit call.  The CUDA       *)
(* kernels (GraphTsetlinMachine/kernels.py) are modelled from the          *)
(* description of their algorithm: clause evaluation, message exchange,    *)
(* feedback.                                                               *)
(***************************************************************************)
EXTENDS Integers, Sequences, FiniteSets, TLC

(***************************************************************************)
(* Constructor arguments of the instance under study.                      *)
(***************************************************************************)
number_of_clauses == 1
message_size == 1
message_bits == 1
number_of_state_bits == 1
number_of_outputs == 1

(***************************************************************************)
(* Bounds of the exploration.                                              *)
(***************************************************************************)
T == 1
MaxDepth == 2
MaxEpochs == 2
MaxArrays == 5

VARIABLES
    depth,                   \* self.depth
    initialized,             \* self.initialized
    number_of_literals,      \* self.number_of_literals (0: attribute not set)
    graphs_signature,        \* self.graphs_signature_train / _test (0: np.array([]))
    encoded_Y,               \* self.encoded_Y (<<>>: np.array([]))
    ta_state,                \* self.ta_state, host copy (<<>>: np.array([]))
    clause_weights,          \* self.clause_weights, host copy (<<>>: np.array([]))
    ta_state_gpu,            \* device: surface automata
    message_ta_state_gpu,    \* device: list of depth-1 message automaton stores
    clause_weights_gpu,      \* device: clause weights
    encoded_X_gpu,           \* device: encoded_X_train_gpu / _test_gpu (id of the uploaded graph set, 0: none)
    allocated,               \* did the last _init_fit / _score_init allocate per-graph-set buffers
    pc,                      \* "idle", "fit" (inside the loops of _fit), "exit" (sys.exit)
    op,                      \* the public method called last
    fit_graphs,              \* _fit: graphs argument (id)
    fit_epochs,              \* _fit: epochs argument
    fit_incremental,         \* _fit: incremental argument
    fit_branch,              \* _init_fit: the branch taken, "init" (line 335), "reset" (line 343) or "keep"
    epoch,                   \* _fit: loop variable
    e,                       \* _fit: loop variable (1-based)
    ret,                     \* what the last score / transform call returned
    held,                    \* a tuple returned by get_state, kept by the caller
    held_score,              \* what score returned on every graph set when held was taken
    cfg,                     \* the arguments of the constructor call
    cfg_pc,                  \* "args", "ValueError" (raised by __init__), "constructed", "evaluating"
    self_hypervectors,       \* self.hypervectors as __init__ built it (<<>>: not built)
    call,                    \* a predict or fit call of one of the three model classes, with its input
    result,                  \* what that call computed: the predictions, or the encoded_Y handed to _fit
    edge_gpu,                \* device: size in bytes of edge_train_gpu / edge_test_gpu (0: not allocated)
    k_called,                \* the call followed launch by launch has been made
    k_call,                  \* the inference call under way: method and graph set
    k_e,                     \* loop variable e of the inference call (1-based)
    k_steps,                 \* the (epoch, e) pairs whose loop iteration the running fit has started
    k_todo,                  \* statements of the running _init_fit or of the running example still to execute
    k_log,                   \* statements of the running example executed so far
    in_flight,               \* kernels launched and not yet synchronized
    current_clause_node_output,  \* local of _evaluate and its caller: name of a device buffer
    next_clause_node_output,     \* local of _evaluate: name of a device buffer
    returned_clause_node_output, \* local of the caller: the buffer name _evaluate returned
    transformed_X_sample_gpu,    \* device: output of the transform kernel for one example
    clause_node_output_gpu,  \* device: the two clause-node output buffers of the role in use
    clause_X_int_gpu,        \* device: message bits received per node
    clause_X_gpu,            \* device: encoded messages, one buffer per message round
    class_sum_gpu,           \* device: class sums
    clause_node_gpu,         \* device: representative node per clause
    class_clause_update_gpu, \* device: feedback type drawn per (class, clause)
    k_host,                  \* host arrays the inference call fills, one entry per example
    host_arrays,             \* host: the numpy arrays np.empty made, and which of them self.ta_state,
                             \* self.clause_weights and a tuple kept by the caller refer to
    outputs                  \* the class of the instance, self.number_of_outputs, and the number of
                             \* outputs the kernels and each device buffer were made for

vars == <<depth, initialized, number_of_literals, graphs_signature, encoded_Y,
          ta_state, clause_weights, ta_state_gpu, message_ta_state_gpu,
          clause_weights_gpu, encoded_X_gpu, edge_gpu, allocated, pc, op, fit_graphs,
          fit_epochs, fit_incremental, fit_branch, epoch, e, ret, held, held_score,
          cfg, cfg_pc, self_hypervectors, call, result, k_called, k_call, k_e, k_steps,
          k_todo, k_log, in_flight, current_clause_node_output, next_clause_node_output,
          returned_clause_node_output, transformed_X_sample_gpu, clause_node_output_gpu, clause_X_int_gpu, clause_X_gpu, class_sum_gpu,
          clause_node_gpu, class_clause_update_gpu, k_host, host_arrays, outputs>>

codec_vars == <<call, result>>
kernel_vars ==
    <<k_called, k_call, k_e, k_steps, k_todo, k_log, in_flight, current_clause_node_output,
      next_clause_node_output, returned_clause_node_output, transformed_X_sample_gpu,
      clause_node_output_gpu, clause_X_int_gpu, clause_X_gpu,
      class_sum_gpu, clause_node_gpu, class_clause_update_gpu, k_host>>

Roles == {"train", "test"}
EmptyArray == <<>>
NoResult == [op |-> "none"]
NoState == [op |-> "none"]

(***************************************************************************)
(* Graph sets, as the graph builder hands them over.  X[n] is the packed   *)
(* literal word of node n: the hypervector_size feature bits followed by   *)
(* their negations.  An edge is <<source, destination, edge type>>.        *)
(***************************************************************************)
GraphsA ==
    [signature |-> 1, hypervector_size |-> 1,
     graph |-> << [X |-> << <<1, 0>>, <<0, 1>> >>,
                   edge |-> { <<1, 2, 0>>, <<2, 1, 0>> }],
                  [X |-> << <<1, 0>> >>, edge |-> {}] >>]

GraphsWide ==
    [signature |-> 2, hypervector_size |-> 2,
     graph |-> << [X |-> << <<1, 1, 0, 0>> >>, edge |-> {}] >>]

\* two graphs without any edge
GraphsLone ==
    [signature |-> 3, hypervector_size |-> 1,
     graph |-> << [X |-> << <<1, 0>>, <<0, 1>> >>, edge |-> {}],
                  [X |-> << <<0, 1>> >>, edge |-> {}] >>]

GraphSets == <<GraphsA, GraphsWide, GraphsLone>>
\* the graph sets the callers of the instance pass
GraphIds == {1, 2}
\* the graph sets used where the kernel sequence is followed launch by launch
KernelGraphIds == {1, 3}
\* graph sets of the shape the instance is first fitted with
NarrowIds == {g \in GraphIds : GraphSets[g].hypervector_size = 1}

\* graphs.edge.nbytes: two 32-bit words per edge
edge_nbytes(g) ==
    LET RECURSIVE Count(_)
        Count(ex) == IF ex = 0 THEN 0
                     ELSE Count(ex - 1) + Cardinality(GraphSets[g].graph[ex].edge)
    IN  8 * Count(Len(GraphSets[g].graph))

number_of_graphs(g) == Len(GraphSets[g].graph)
number_of_graph_nodes(g, ex) == Len(GraphSets[g].graph[ex].X)
Examples(g) == 1 .. number_of_graphs(g)
Nodes(g, ex) == 1 .. number_of_graph_nodes(g, ex)

Clauses == 0 .. number_of_clauses - 1
Outputs == 0 .. number_of_outputs - 1
MessageLiterals == 0 .. 2 * message_size - 1

\* label matrix a caller passes with graph set g: one row per graph, the
\* classes alternating along the graphs
LabelChoices(g) == {[ex \in Examples(g) |-> [o \in Outputs |-> ex % 2]]}


(***************************************************************************)
(* Automaton State Store.  A cell is a saturating counter of               *)
(* number_of_state_bits bits; its action is its most significant bit.      *)
(***************************************************************************)
RECURSIVE Pow2(_)
Pow2(n) == IF n = 0 THEN 1 ELSE 2 * Pow2(n - 1)

MaxState == Pow2(number_of_state_bits) - 1
States == 0 .. MaxState
NeutralState == Pow2(number_of_state_bits - 1) - 1

action(row, k) == row[k] >= Pow2(number_of_state_bits - 1)
Inc(v) == IF v < MaxState THEN v + 1 ELSE v
Dec(v) == IF v > 0 THEN v - 1 ELSE v

\* kernel prepare, automaton part: every cell of every clause to the exclude side
prepare_ta_state(L) == [c \in Clauses |-> [k \in 0 .. L - 1 |-> NeutralState]]
\* kernel prepare_message_ta_state
prepare_message_ta_state == [c \in Clauses |-> [k \in MessageLiterals |-> NeutralState]]
\* kernel prepare, weight part: a random sign per (class, clause)
prepare_clause_weights == [Outputs -> [Clauses -> {-1, 1}]]

\* self.hypervectors: message_bits distinct positions of [0, message_size) per clause
hypervectors ==
    CHOOSE h \in [Clauses -> {S \in SUBSET (0 .. message_size - 1) :
                                 Cardinality(S) = message_bits}] : TRUE

(***************************************************************************)
(* Clause Evaluator and Message Protocol Engine (the kernels launched by   *)
(* _evaluate).  A clause-node output is, per clause, the set of nodes      *)
(* whose bit is set.                                                       *)
(***************************************************************************)
Literal(g, ex, n, k) == GraphSets[g].graph[ex].X[n][k + 1] = 1

\* layer zero: a node satisfies a clause iff every included literal is present
calculate_messages(ta, L, g, ex) ==
    [c \in Clauses |->
        {n \in Nodes(g, ex) : \A k \in 0 .. L - 1 : action(ta[c], k) => Literal(g, ex, n, k)}]

\* prepare_messages + exchange_messages: the message bits each node receives
exchange_messages(out, g, ex) ==
    [n \in Nodes(g, ex) |->
        {(b + ed[3]) % message_size :
            <<c, b, ed>> \in {x \in Clauses \X (0 .. message_size - 1) \X GraphSets[g].graph[ex].edge :
                                 /\ x[3][2] = n
                                 /\ x[3][1] \in out[x[1]]
                                 /\ x[2] \in hypervectors[x[1]]}}]

\* encode_messages: symbol present / symbol absent literals
encode_messages(msg) ==
    [n \in DOMAIN msg |->
        [k \in MessageLiterals |->
            IF k < message_size THEN k \in msg[n] ELSE (k - message_size) \notin msg[n]]]

\* a clause stays on at a node iff it was on and every included message literal is present
calculate_messages_conditional(mta, cur, X) ==
    [c \in Clauses |->
        {n \in cur[c] : \A k \in MessageLiterals : action(mta[c], k) => X[n][k]}]

RECURSIVE SumWeights(_, _, _)
SumWeights(wrow, out, n) ==
    IF n = 0 THEN 0
    ELSE SumWeights(wrow, out, n - 1) + (IF out[n - 1] # {} THEN wrow[n - 1] ELSE 0)

\* kernel evaluate: every clause with a satisfying node votes with its weight
evaluate(out, w) == [o \in Outputs |-> SumWeights(w[o], out, number_of_clauses)]

RECURSIVE MessageRounds(_, _, _, _, _, _)
MessageRounds(d, dpt, mta, cur, clause_X, gx) ==
    IF d > dpt - 1 THEN [out |-> cur, clause_X |-> clause_X]
    ELSE LET X == encode_messages(exchange_messages(cur, gx[1], gx[2]))
         IN  MessageRounds(d + 1, dpt, mta,
                           calculate_messages_conditional(mta[d], cur, X),
                           Append(clause_X, X), gx)

_evaluate(ta, mta, w, L, dpt, g, ex) ==
    LET r == MessageRounds(1, dpt, mta, calculate_messages(ta, L, g, ex), <<>>, <<g, ex>>)
    IN  [out |-> r.out, clause_X |-> r.clause_X, class_sum |-> evaluate(r.out, w)]

\* what _score(graphs) returns on the current device state
_score(g) ==
    [ex \in Examples(g) |->
        _evaluate(ta_state_gpu, message_ta_state_gpu, clause_weights_gpu,
                  number_of_literals, depth, g, ex).class_sum]


\* the transform kernel: per clause, the number of nodes that satisfy it
transform_gpu(out) == [c \in Clauses |-> Cardinality(out[c])]
\* the transform_nodewise kernel: per clause and node, the output bit
transform_nodewise_gpu(out, g, ex) ==
    [c \in Clauses |-> [n \in Nodes(g, ex) |-> IF n \in out[c] THEN 1 ELSE 0]]

(***************************************************************************)
(* Feedback / Update Engine (the kernels launched by _fit after the        *)
(* evaluation of one example).                                             *)
(***************************************************************************)
NoNode == 0

\* one satisfying node per clause, NoNode for a clause no node satisfies
select_clause_node(out) ==
    {cn \in [Clauses -> {NoNode} \cup UNION {out[c] : c \in Clauses}] :
        \A c \in Clauses : IF out[c] = {} THEN cn[c] = NoNode ELSE cn[c] \in out[c]}

Clip(x) == IF x > T THEN T ELSE IF x < -T THEN -T ELSE x
Abs(x) == IF x < 0 THEN -x ELSE x

\* the updates select_clause_updates may draw for one (class, clause):
\* direction `target' with probability |y - clip(sum)| / (2T), else 0
UpdateChoices(y, sum) ==
    LET cs == Clip(sum)
        target == IF cs > y THEN -1 ELSE 1
        err == Abs(y - cs)
    IN  (IF err > 0 THEN {target} ELSE {}) \cup (IF err < 2 * T THEN {0} ELSE {})

select_clause_updates(class_sum, Yrow) ==
    {u \in [Outputs -> [Clauses -> {-1, 0, 1}]] :
        \A o \in Outputs : \A c \in Clauses : u[o][c] \in UpdateChoices(Yrow[o], class_sum[o])}

\* weight step of select_clause_updates: only clauses with a representative node move
UpdatedWeights(w, u, cn) ==
    [o \in Outputs |-> [c \in Clauses |->
        IF cn[c] # NoNode THEN w[o][c] + u[o][c] ELSE w[o][c]]]

Sign(x) == IF x >= 0 THEN 1 ELSE -1

\* Type I: present literals are strengthened (boost_true_positive_feedback = 1),
\* absent literals are weakened with probability 1/s
TypeI(row, lits) ==
    {r \in [DOMAIN row -> States] :
        \A k \in DOMAIN row :
            IF lits[k] THEN r[k] = Inc(row[k]) ELSE r[k] \in {row[k], Dec(row[k])}}

\* Type II: absent, excluded literals are pushed towards inclusion
TypeII(row, lits) ==
    {[k \in DOMAIN row |-> IF ~lits[k] /\ ~action(row, k) THEN Inc(row[k]) ELSE row[k]]}

Feedback(row, lits, u, w) ==
    IF u = 0 THEN {row}
    ELSE IF u * Sign(w) > 0 THEN TypeI(row, lits) ELSE TypeII(row, lits)

RECURSIVE ClassFold(_, _, _, _, _, _)
ClassFold(rows, o, c, lits, u, w) ==
    IF o = number_of_outputs THEN rows
    ELSE ClassFold(UNION {Feedback(r, lits, u[o][c], w[o][c]) : r \in rows}, o + 1, c, lits, u, w)

\* kernels update / update_message: lits[c] are the literals of clause c's representative node
update(ta, lits, cn, u, w) ==
    {t \in [Clauses -> UNION {{ta[c]} \cup ClassFold({ta[c]}, 0, c, lits[c], u, w) : c \in Clauses}] :
        \A c \in Clauses :
            IF cn[c] = NoNode THEN t[c] = ta[c]
            ELSE t[c] \in ClassFold({ta[c]}, 0, c, lits[c], u, w)}

\* literals the update kernel reads for clause c: the features of its representative node
NodeLiterals(L, g, ex, cn) ==
    [c \in Clauses |-> [k \in 0 .. L - 1 |-> cn[c] # NoNode /\ Literal(g, ex, cn[c], k)]]
\* the encoded messages of round d at the representative node
NodeMessageLiterals(X, cn) ==
    [c \in Clauses |-> [k \in MessageLiterals |-> cn[c] # NoNode /\ X[cn[c]][k]]]

RECURSIVE update_message_layers(_, _, _, _, _, _)
\* the possible contents of message_ta_state_gpu[d..] after the update_message launches
update_message_layers(d, mta, clause_X, cn, u, w) ==
    IF d > depth - 1 THEN {<<>>}
    ELSE {<<t>> \o rest :
            t \in update(mta[d], NodeMessageLiterals(clause_X[d], cn), cn, u, w),
            rest \in update_message_layers(d + 1, mta, clause_X, cn, u, w)}

\* encoded_Y of MultiOutputGraphTsetlinMachine.fit
EncodeY(Y) == [ex \in DOMAIN Y |-> [o \in DOMAIN Y[ex] |-> IF Y[ex][o] = 1 THEN T ELSE -T]]

(***************************************************************************)
(* The three model classes: how fit encodes the labels and how predict     *)
(* reads the class sums.  Rows are indexed from 0, examples from 1.        *)
(***************************************************************************)
ModelKinds == {"multiclass", "multioutput", "single"}

Max(S) == CHOOSE x \in S : \A y \in S : y <= x

\* np.argmax along one row: a scan from the left that moves on a strictly
\* larger value only
RECURSIVE argmax_scan(_, _, _)
argmax_scan(row, i, best) ==
    IF i \notin DOMAIN row THEN best
    ELSE argmax_scan(row, i + 1, IF row[i] > row[best] THEN i ELSE best)

argmax_last(row) == Max({i \in DOMAIN row : \A j \in DOMAIN row : row[j] <= row[i]})

argmax(row) == argmax_scan(row, 1, 0)

predict_strict(kind, class_sums) ==
    CASE kind = "multiclass" -> [ex \in DOMAIN class_sums |-> argmax(class_sums[ex])]
      [] kind = "multioutput" ->
            [ex \in DOMAIN class_sums |->
                [o \in DOMAIN class_sums[ex] |-> IF class_sums[ex][o] > 0 THEN 1 ELSE 0]]
      [] kind = "single" -> [ex \in DOMAIN class_sums |-> class_sums[ex][0] > 0]

\* predict of the three classes, applied to what score returned
\* (the single-output score is column 0 of _score)
predict(kind, class_sums) ==
    CASE kind = "multiclass" -> [ex \in DOMAIN class_sums |-> argmax(class_sums[ex])]
      [] kind = "multioutput" ->
            [ex \in DOMAIN class_sums |->
                [o \in DOMAIN class_sums[ex] |-> IF class_sums[ex][o] >= 0 THEN 1 ELSE 0]]
      [] kind = "single" -> [ex \in DOMAIN class_sums |-> class_sums[ex][0] >= 0]

fit_encoded_Y_zero(kind, Y) ==
    CASE kind = "multiclass" ->
            [i \in DOMAIN Y |->
                [c \in 0 .. Max({Y[j] : j \in DOMAIN Y}) |-> IF Y[i] = c THEN T ELSE 0]]
      [] kind = "multioutput" ->
            [i \in DOMAIN Y |-> [o \in DOMAIN Y[i] |-> IF Y[i][o] = 1 THEN T ELSE 0]]
      [] kind = "single" -> [i \in DOMAIN Y |-> IF Y[i] = 1 THEN T ELSE 0]

\* the encoded_Y that fit of the three classes hands to _fit; the multi-class
\* fit sets number_of_outputs to max(Y) + 1 first
fit_encoded_Y(kind, Y) ==
    CASE kind = "multiclass" ->
            [i \in DOMAIN Y |->
                [c \in 0 .. Max({Y[j] : j \in DOMAIN Y}) |-> IF Y[i] = c THEN T ELSE -T]]
      [] kind = "multioutput" -> EncodeY(Y)
      [] kind = "single" -> [i \in DOMAIN Y |-> IF Y[i] = 1 THEN T ELSE -T]


(***************************************************************************)
(* The model instance.                                                     *)
(***************************************************************************)
\* sympy.prevprime(n): the largest prime below n (raises for n <= 2)
IsPrime(p) == p > 1 /\ \A d \in 2 .. p - 1 : p % d # 0
prevprime(n) == Max({p \in 2 .. n - 1 : IsPrime(p)})

\* the rows np.random.choice(indexes, size=k, replace=False) may return, indexes = 0 .. n-1
random_choice(n, k) ==
    {r \in [1 .. k -> 0 .. n - 1] : \A i, j \in 1 .. k : i # j => r[i] # r[j]}

\* self.message_bits after __init__: double hashing sets it to 2
EffectiveMessageBits(a) == IF a.double_hashing THEN 2 ELSE a.message_bits

\* the tables __init__ may leave in self.hypervectors for arguments a, one row per clause
Hypervectors(a) ==
    IF a.double_hashing
    THEN {[i \in 0 .. a.number_of_clauses - 1 |->
              <<i % a.message_size,
                a.message_size + prevprime(a.message_size) - (i % prevprime(a.message_size))>>]}
    ELSE [0 .. a.number_of_clauses - 1 -> random_choice(a.message_size, a.message_bits)]

\* the constructor call that made the instance under study
InstanceArgs ==
    [number_of_clauses |-> number_of_clauses, T |-> T, s |-> 2,
     message_size |-> message_size, message_bits |-> message_bits, double_hashing |-> FALSE]

NoCall == [fn |-> "none"]
CodecIdle == call = NoCall /\ result = NoResult
\* a clause-node output buffer nothing has written since its allocation
Unwritten == [val |-> [c \in Clauses |-> {}], by |-> [kernel |-> "none", d |-> 0, e |-> 0]]
Buffers == {"current", "next"}
NoHost == [class_sum |-> <<>>, transformed_X |-> <<>>]

\* the output counts of an instance that is not followed as one of the three classes
NoOutputs == [kind |-> "none"]

\* no array made yet: self.ta_state and self.clause_weights are np.array([]) (0), the
\* caller keeps no tuple
NoArrays == [objects |-> <<>>, ta_state |-> 0, clause_weights |-> 0, snapshot |-> [taken |-> FALSE]]

\* no call is followed launch by launch, the per-graph-set work buffers are not allocated
KernelIdle ==
    /\ k_called = {}
    /\ k_call = NoCall
    /\ k_e = 0
    /\ k_steps = <<>>
    /\ k_todo = <<>>
    /\ k_log = <<>>
    /\ in_flight = {}
    /\ current_clause_node_output = "current"
    /\ next_clause_node_output = "next"
    /\ returned_clause_node_output = "none"
    /\ transformed_X_sample_gpu = EmptyArray
    /\ clause_node_output_gpu = [b \in Buffers |-> Unwritten]
    /\ clause_X_int_gpu = EmptyArray
    /\ clause_X_gpu = <<>>
    /\ class_sum_gpu = EmptyArray
    /\ clause_node_gpu = EmptyArray
    /\ class_clause_update_gpu = EmptyArray
    /\ k_host = NoHost

Init ==
    /\ depth \in 1 .. MaxDepth
    /\ initialized = FALSE
    /\ number_of_literals = 0
    /\ graphs_signature = [r \in Roles |-> 0]
    /\ encoded_Y = EmptyArray
    /\ ta_state = EmptyArray
    /\ clause_weights = EmptyArray
    /\ ta_state_gpu = EmptyArray
    /\ message_ta_state_gpu = <<>>
    /\ clause_weights_gpu = EmptyArray
    /\ encoded_X_gpu = [r \in Roles |-> 0]
    /\ edge_gpu = [r \in Roles |-> 0]
    /\ allocated = FALSE
    /\ pc = "idle"
    /\ op = "none"
    /\ fit_graphs = 0
    /\ fit_epochs = 0
    /\ fit_incremental = FALSE
    /\ fit_branch = "none"
    /\ epoch = 0
    /\ e = 0
    /\ ret = NoResult
    /\ held = NoState
    /\ held_score = <<>>
    /\ cfg = InstanceArgs
    /\ cfg_pc = "constructed"
    /\ self_hypervectors \in Hypervectors(InstanceArgs)
    /\ CodecIdle
    /\ KernelIdle
    /\ host_arrays = NoArrays
    /\ outputs = NoOutputs

PreparesSurfaceAlways(incremental) == TRUE
PreparesSurfaceOnRequestOnly(incremental) == incremental = FALSE

\* _init_fit, lines 335-345: which stores a fit call prepares
PreparesSurface(incremental) == ~initialized \/ incremental = FALSE
PreparesMessages(incremental) == ~initialized

RebindsAlways(role, g) == TRUE

\* lines 347 and 568: not np.array_equal(self.graphs_signature_<role>, graphs.signature)
Rebinds(role, g) == graphs_signature[role] # GraphSets[g].signature

\* _init_fit lines 365-369, _score_init lines 586-590: the size of the edge buffer;
\* an allocation of the exact size (0 bytes for a graph set without edges) is the other reading
edge_alloc_exact(g) == edge_nbytes(g)
edge_alloc(g) == IF edge_nbytes(g) > 0 THEN edge_nbytes(g) ELSE 1

FitRole == "train"
ScoreRoleTrain == "train"
ScoreRole == "test"

\* the per-graph-set part of _init_fit and _score_init
BindGraphs(role, g) ==
    IF Rebinds(role, g)
    THEN /\ graphs_signature' = [graphs_signature EXCEPT ![role] = GraphSets[g].signature]
         /\ encoded_X_gpu' = [encoded_X_gpu EXCEPT ![role] = g]
         /\ edge_gpu' = [edge_gpu EXCEPT ![role] = edge_alloc(g)]
         /\ allocated' = TRUE
    ELSE /\ UNCHANGED <<graphs_signature, encoded_X_gpu, edge_gpu>>
         /\ allocated' = FALSE

\* fit -> _fit -> _init_fit, up to the first iteration of the loops
FitBegin(g, Y, epochs, incremental) ==
    /\ pc = "idle"
    /\ initialized \/ g \in NarrowIds
    /\ op' = "fit"
    /\ IF ~initialized
       THEN /\ number_of_literals' = 2 * GraphSets[g].hypervector_size
            /\ initialized' = TRUE
       ELSE UNCHANGED <<number_of_literals, initialized>>
    /\ IF PreparesSurface(incremental)
       THEN /\ ta_state_gpu' = prepare_ta_state(number_of_literals')
            /\ clause_weights_gpu' \in prepare_clause_weights
       ELSE UNCHANGED <<ta_state_gpu, clause_weights_gpu>>
    /\ IF PreparesMessages(incremental)
       THEN message_ta_state_gpu' = [d \in 1 .. depth - 1 |-> prepare_message_ta_state]
       ELSE UNCHANGED message_ta_state_gpu
    /\ BindGraphs(FitRole, g)
    /\ encoded_Y' = IF encoded_Y # EncodeY(Y) THEN EncodeY(Y) ELSE encoded_Y
    /\ pc' = "fit"
    /\ fit_graphs' = g
    /\ fit_epochs' = epochs
    /\ fit_incremental' = incremental
    /\ fit_branch' = IF ~initialized THEN "init"
                     ELSE IF PreparesSurface(incremental) THEN "reset" ELSE "keep"
    /\ epoch' = 0
    /\ e' = 1
    /\ ret' = NoResult
    /\ UNCHANGED <<host_arrays, outputs, depth, ta_state, clause_weights, held, held_score, cfg, cfg_pc,
                   self_hypervectors, codec_vars, kernel_vars>>

\* one iteration of the example loop of _fit: evaluate, select, update
FitExample ==
    /\ pc = "fit"
    /\ epoch < fit_epochs
    /\ LET ev == _evaluate(ta_state_gpu, message_ta_state_gpu, clause_weights_gpu,
                           number_of_literals, depth, fit_graphs, e)
       IN  \E cn \in select_clause_node(ev.out) :
           \E u \in select_clause_updates(ev.class_sum, encoded_Y[e]) :
              /\ clause_weights_gpu' = UpdatedWeights(clause_weights_gpu, u, cn)
              /\ ta_state_gpu' \in update(ta_state_gpu,
                                          NodeLiterals(number_of_literals, fit_graphs, e, cn),
                                          cn, u, clause_weights_gpu)
              /\ message_ta_state_gpu' \in
                    update_message_layers(1, message_ta_state_gpu, ev.clause_X, cn, u,
                                          clause_weights_gpu)
    /\ IF e < number_of_graphs(fit_graphs)
       THEN e' = e + 1 /\ epoch' = epoch
       ELSE e' = 1 /\ epoch' = epoch + 1
    /\ UNCHANGED <<host_arrays, outputs, depth, initialized, number_of_literals, graphs_signature, encoded_Y,
                   ta_state, clause_weights, encoded_X_gpu, edge_gpu, allocated, pc, op, fit_graphs,
                   fit_epochs, fit_incremental, fit_branch, ret, held, held_score, cfg, cfg_pc,
                   self_hypervectors, codec_vars, kernel_vars>>

FitReturnKeepsCache ==
    /\ pc = "fit"
    /\ epoch >= fit_epochs
    /\ pc' = "idle"
    /\ fit_graphs' = 0
    /\ fit_epochs' = 0
    /\ fit_incremental' = FALSE
    /\ fit_branch' = "none"
    /\ epoch' = 0
    /\ e' = 0
    /\ UNCHANGED <<host_arrays, outputs, depth, initialized, number_of_literals, graphs_signature, encoded_Y,
                   ta_state, clause_weights,
                   ta_state_gpu, message_ta_state_gpu, clause_weights_gpu, encoded_X_gpu, edge_gpu,
                   allocated, op, ret, held, held_score, cfg, cfg_pc,
                   self_hypervectors, codec_vars, kernel_vars>>

\* the end of _fit, lines 558-561
FitReturn ==
    /\ pc = "fit"
    /\ epoch >= fit_epochs
    /\ ta_state' = EmptyArray
    /\ clause_weights' = EmptyArray
    /\ pc' = "idle"
    /\ fit_graphs' = 0
    /\ fit_epochs' = 0
    /\ fit_incremental' = FALSE
    /\ fit_branch' = "none"
    /\ epoch' = 0
    /\ e' = 0
    /\ UNCHANGED <<host_arrays, outputs, depth, initialized, number_of_literals, graphs_signature, encoded_Y,
                   ta_state_gpu, message_ta_state_gpu, clause_weights_gpu, encoded_X_gpu, edge_gpu,
                   allocated, op, ret, held, held_score, cfg, cfg_pc,
                   self_hypervectors, codec_vars, kernel_vars>>


\* _score_init, line 564
ScoreInitRejects == ~initialized

ScoreRejectedReturns ==
    /\ pc' = "idle"
    /\ ret' = NoResult
    /\ UNCHANGED <<host_arrays, outputs, graphs_signature, encoded_X_gpu, edge_gpu, allocated>>

\* _score_init, lines 565-566: print the error, sys.exit(-1)
ScoreRejected ==
    /\ pc' = "exit"
    /\ ret' = NoResult
    /\ UNCHANGED <<host_arrays, outputs, graphs_signature, encoded_X_gpu, edge_gpu, allocated>>

\* what the three inference methods return for graph set g
_score_value(g) == _score(g)
transform_value(g) ==
    [ex \in Examples(g) |->
        LET ev == _evaluate(ta_state_gpu, message_ta_state_gpu, clause_weights_gpu,
                            number_of_literals, depth, g, ex)
        IN  <<transform_gpu(ev.out), ev.class_sum>>]
transform_nodewise_value(g) ==
    [ex \in Examples(g) |->
        LET ev == _evaluate(ta_state_gpu, message_ta_state_gpu, clause_weights_gpu,
                            number_of_literals, depth, g, ex)
        IN  <<transform_nodewise_gpu(ev.out, g, ex), ev.class_sum>>]

InferenceOps == {"score", "transform", "transform_nodewise"}
InferenceValue(name, g) ==
    CASE name = "score" -> _score_value(g)
      [] name = "transform" -> transform_value(g)
      [] name = "transform_nodewise" -> transform_nodewise_value(g)

\* score (_score), transform, transform_nodewise: _score_init, then one evaluation per example
Inference(name, g) ==
    /\ pc = "idle"
    /\ op' = name
    /\ IF ScoreInitRejects
       THEN ScoreRejected
       ELSE /\ BindGraphs(ScoreRole, g)
            /\ ret' = [graphs |-> g, value |-> InferenceValue(name, g)]
            /\ pc' = "idle"
    /\ UNCHANGED <<host_arrays, outputs, depth, initialized, number_of_literals, encoded_Y, ta_state,
                   clause_weights, ta_state_gpu, message_ta_state_gpu, clause_weights_gpu,
                   fit_graphs, fit_epochs, fit_incremental, fit_branch, epoch, e, held,
                   held_score, cfg, cfg_pc,
                   self_hypervectors, codec_vars, kernel_vars>>

Score(g) == Inference("score", g)
Transform(g) == Inference("transform", g)
TransformNodewise(g) == Inference("transform_nodewise", g)

\* score(graphs) for every graph set, on the current device state
ScoreTable == [g \in GraphIds |-> _score(g)]

\* the tuple get_state returns in the current state (min_y, max_y are None throughout)
get_state_value ==
    [ta_state |-> IF clause_weights = EmptyArray THEN ta_state_gpu ELSE ta_state,
     clause_weights |-> IF clause_weights = EmptyArray THEN clause_weights_gpu ELSE clause_weights,
     number_of_outputs |-> number_of_outputs,
     number_of_clauses |-> number_of_clauses,
     number_of_literals |-> number_of_literals,
     depth |-> depth,
     number_of_state_bits |-> number_of_state_bits]

\* get_state, lines 228-234, host_arrays becoming `arrays'
GetStateOn(arrays) ==
    /\ pc = "idle"
    /\ number_of_literals # 0
    /\ op' = "get_state"
    /\ ta_state' = get_state_value.ta_state
    /\ clause_weights' = get_state_value.clause_weights
    /\ held' = get_state_value
    /\ held_score' = ScoreTable
    /\ ret' = NoResult
    /\ host_arrays' = arrays
    /\ UNCHANGED <<outputs, depth, initialized, number_of_literals, graphs_signature, encoded_Y,
                   ta_state_gpu, message_ta_state_gpu, clause_weights_gpu, encoded_X_gpu, edge_gpu,
                   allocated, pc, fit_graphs, fit_epochs, fit_incremental, fit_branch,
                   epoch, e, cfg, cfg_pc,
                   self_hypervectors, codec_vars, kernel_vars>>

\* get_state, lines 228-234; the caller keeps the tuple (the array objects are not followed)
GetState == GetStateOn(host_arrays)

fetched_in_place(h, attr, value) ==
    IF h[attr] = 0
    THEN [h EXCEPT !.objects = Append(@, value), ![attr] = Len(h.objects) + 1]
    ELSE [h EXCEPT !.objects[h[attr]] = value]
\* self.<attr> = np.empty(...); cuda.memcpy_dtoh(self.<attr>, <store>) (lines 124-125,
\* 230-233): a new array object is made, bound to the attribute and filled with `value'
fetched(h, attr, value) ==
    [h EXCEPT !.objects = Append(@, value), ![attr] = Len(h.objects) + 1]

\* the arrays after get_state (229-234); keep: the caller keeps the returned tuple,
\* whose first two entries are the array objects self.ta_state and self.clause_weights
get_state_arrays(h, keep) ==
    LET g == IF clause_weights = EmptyArray
             THEN fetched(fetched(h, "ta_state", ta_state_gpu),
                          "clause_weights", clause_weights_gpu)
             ELSE h
    IN  IF keep
        THEN [g EXCEPT !.snapshot =
                 [taken |-> TRUE, ta_state |-> g.ta_state, clause_weights |-> g.clause_weights,
                  ta_value |-> g.objects[g.ta_state],
                  w_value |-> g.objects[g.clause_weights]]]
        ELSE g
\* the arrays after ta_action(0, clause, ta) (123-125)
ta_action_arrays(h) ==
    IF ta_state = EmptyArray THEN fetched(h, "ta_state", ta_state_gpu) ELSE h

\* get_state with the array objects followed; no more than MaxArrays arrays are made
GetStateKept(keep) ==
    /\ Len(host_arrays.objects) + 2 <= MaxArrays
    /\ GetStateOn(get_state_arrays(host_arrays, keep))

set_state_without_weights(state) ==
    /\ number_of_literals' = state.number_of_literals
    /\ depth' = state.depth
    /\ ta_state_gpu' = state.ta_state
    /\ clause_weights_gpu' = [o \in Outputs |-> [c \in Clauses |-> 0]]
    /\ graphs_signature' = [r \in Roles |-> 0]
    /\ encoded_Y' = EmptyArray
    /\ ta_state' = EmptyArray
    /\ clause_weights' = EmptyArray
    /\ ret' = NoResult
    /\ UNCHANGED <<host_arrays, outputs, initialized, message_ta_state_gpu, encoded_X_gpu, edge_gpu, allocated, pc,
                   fit_graphs, fit_epochs, fit_incremental, fit_branch, epoch, e, cfg, cfg_pc,
                   self_hypervectors, codec_vars, kernel_vars>>

\* set_state, lines 236-257
set_state(state) ==
    /\ number_of_literals' = state.number_of_literals
    /\ depth' = state.depth
    /\ ta_state_gpu' = state.ta_state
    /\ clause_weights_gpu' = state.clause_weights
    /\ graphs_signature' = [r \in Roles |-> 0]
    /\ encoded_Y' = EmptyArray
    /\ ta_state' = EmptyArray
    /\ clause_weights' = EmptyArray
    /\ ret' = NoResult
    /\ UNCHANGED <<host_arrays, outputs, initialized, message_ta_state_gpu, encoded_X_gpu, edge_gpu, allocated, pc,
                   fit_graphs, fit_epochs, fit_incremental, fit_branch, epoch, e, cfg, cfg_pc,
                   self_hypervectors, codec_vars, kernel_vars>>

\* set_state(snapshot) with a tuple taken earlier
SetState ==
    /\ pc = "idle"
    /\ held # NoState
    /\ op' = "set_state"
    /\ set_state(held)
    /\ UNCHANGED <<host_arrays, outputs, held, held_score>>

\* set_state(get_state())
RoundTrip ==
    /\ pc = "idle"
    /\ number_of_literals # 0
    /\ op' = "round_trip"
    /\ set_state(get_state_value)
    /\ UNCHANGED <<host_arrays, outputs, held, held_score>>

\* ta_action, lines 121-135, on the automaton values the stores hold: depth 0 reads the
\* host copy self.ta_state, fetched from the device when it is empty; depth > 0 fetches
\* message store depth-1 (message_ta_state_gpu[dep] here) at every call
TaActionOn(dep, clause, ta, arrays) ==
    /\ pc = "idle"
    /\ IF dep = 0 THEN ta_state_gpu # EmptyArray /\ ta \in 0 .. number_of_literals - 1
       ELSE /\ dep \in DOMAIN message_ta_state_gpu
            /\ message_ta_state_gpu[dep] # EmptyArray
            /\ ta \in MessageLiterals
    /\ op' = "ta_action"
    /\ ta_state' = IF dep = 0 /\ ta_state = EmptyArray THEN ta_state_gpu ELSE ta_state
    /\ ret' = [op |-> "ta_action", depth |-> dep, clause |-> clause, ta |-> ta,
               value |-> IF dep = 0 THEN action(ta_state'[clause], ta)
                         ELSE action(message_ta_state_gpu[dep][clause], ta)]
    /\ host_arrays' = arrays
    /\ UNCHANGED <<outputs, depth, initialized, number_of_literals, graphs_signature, encoded_Y,
                   clause_weights, ta_state_gpu, message_ta_state_gpu, clause_weights_gpu,
                   encoded_X_gpu, edge_gpu, allocated, pc, fit_graphs, fit_epochs,
                   fit_incremental, fit_branch, epoch, e, held, held_score, cfg, cfg_pc,
                   self_hypervectors, codec_vars, kernel_vars>>

TaAction(dep, clause, ta) == TaActionOn(dep, clause, ta, host_arrays)

\* ta_action(0, clause, ta) with the array objects followed
TaActionFetched(clause, ta) ==
    /\ Len(host_arrays.objects) + 1 <= MaxArrays
    /\ TaActionOn(0, clause, ta, ta_action_arrays(host_arrays))

\* a fit call, with the graph set drawn from ids and the incremental argument from incs
FitCall(ids, incs) ==
    \E g \in ids : \E Y \in LabelChoices(g) : \E epochs \in 0 .. MaxEpochs :
       \E incremental \in incs : FitBegin(g, Y, epochs, incremental)

Next ==
    \/ FitCall(GraphIds, BOOLEAN)
    \/ FitExample
    \/ FitReturn
    \/ \E g \in GraphIds : Score(g)
    \/ \E g \in GraphIds : Transform(g)
    \/ \E g \in GraphIds : TransformNodewise(g)
    \/ GetState
    \/ SetState
    \/ RoundTrip

Spec == Init /\ [][Next]_vars

\* the same instance when every call passes a graph set of the shape of the first
\* one and every fit call passes incremental=True (as the example script does)
NextIncremental ==
    \/ FitCall(NarrowIds, {TRUE})
    \/ FitExample
    \/ FitReturn
    \/ \E g \in NarrowIds : Score(g)
    \/ \E g \in NarrowIds : Transform(g)
    \/ \E g \in NarrowIds : TransformNodewise(g)
    \/ GetState
    \/ SetState
    \/ RoundTrip

SpecIncremental == Init /\ [][NextIncremental]_vars

\* the ta arguments of the ta_action calls: the literals of a graph set of the first
\* shape, which are also the message literals
ActionIndices == 0 .. 2 * message_size - 1

\* the calls that read or replace the automata and the weights, on one instance
NextCache ==
    \/ FitCall(NarrowIds, BOOLEAN)
    \/ FitExample
    \/ FitReturn
    \/ GetState
    \/ SetState
    \/ \E dep \in 0 .. MaxDepth - 1 : \E clause \in Clauses :
          \E ta \in ActionIndices : TaAction(dep, clause, ta)

SpecCache == Init /\ [][NextCache]_vars

\* an instance without message layers (get_state and ta_action(0, ...) copy the
\* surface automata and the weights only)
InitSnapshot ==
    /\ Init
    /\ depth = 1

\* the calls of one instance with the host arrays followed as objects: every fit call
\* passes incremental=True and a graph set of the first shape
NextSnapshot ==
    \/ FitCall(NarrowIds, {TRUE})
    \/ FitExample
    \/ FitReturn
    \/ \E g \in NarrowIds : Score(g)
    \/ \E keep \in BOOLEAN : GetStateKept(keep)
    \/ \E clause \in Clauses : \E ta \in ActionIndices : TaActionFetched(clause, ta)

SpecSnapshot == InitSnapshot /\ [][NextSnapshot]_vars

\* the tuples get_state of another instance of the same shape (depth dpt, fitted on a
\* graph set of the first shape) may have returned
SavedStates(dpt) ==
    {[ta_state |-> ta, clause_weights |-> w, number_of_outputs |-> number_of_outputs,
      number_of_clauses |-> number_of_clauses, number_of_literals |-> 2, depth |-> dpt,
      number_of_state_bits |-> number_of_state_bits] :
        ta \in [Clauses -> [0 .. 1 -> States]], w \in [Outputs -> [Clauses -> -T .. T]]}

\* a newly constructed instance, the caller holding a tuple saved from another one
InitRestore ==
    /\ depth \in 1 .. MaxDepth
    /\ initialized = FALSE
    /\ number_of_literals = 0
    /\ graphs_signature = [r \in Roles |-> 0]
    /\ encoded_Y = EmptyArray
    /\ ta_state = EmptyArray
    /\ clause_weights = EmptyArray
    /\ ta_state_gpu = EmptyArray
    /\ message_ta_state_gpu = <<>>
    /\ clause_weights_gpu = EmptyArray
    /\ encoded_X_gpu = [r \in Roles |-> 0]
    /\ edge_gpu = [r \in Roles |-> 0]
    /\ allocated = FALSE
    /\ pc = "idle"
    /\ op = "none"
    /\ fit_graphs = 0
    /\ fit_epochs = 0
    /\ fit_incremental = FALSE
    /\ fit_branch = "none"
    /\ epoch = 0
    /\ e = 0
    /\ ret = NoResult
    /\ held \in SavedStates(depth)
    /\ held_score = <<>>
    /\ cfg = InstanceArgs
    /\ cfg_pc = "constructed"
    /\ self_hypervectors \in Hypervectors(InstanceArgs)
    /\ CodecIdle
    /\ KernelIdle
    /\ host_arrays = NoArrays
    /\ outputs = NoOutputs

\* the calls the caller makes with it: set_state, fit(incremental=True) and score
NextRestore ==
    \/ SetState
    \/ FitCall(NarrowIds, {TRUE})
    \/ FitExample
    \/ FitReturn
    \/ \E g \in NarrowIds : Score(g)

SpecRestore == InitRestore /\ [][NextRestore]_vars

\* the three classes: MultiClass-, MultiOutput- and plain GraphTsetlinMachine
OutputKinds == {"multiclass", "multioutput", "single"}
MaxClass == 2
MaxColumns == 2
\* the label arrays Y a fit call of the class may be given, for two graphs
OutputLabels(kind) ==
    CASE kind = "multiclass" -> [1 .. 2 -> 0 .. MaxClass]
      [] kind = "multioutput" ->
            UNION {[1 .. 2 -> [0 .. columns - 1 -> 0 .. 1]] : columns \in 1 .. MaxColumns}
      [] kind = "single" -> [1 .. 2 -> 0 .. 1]

\* the first statement of fit: int(np.max(Y) + 1) (741), Y.shape[1] (797), 1 (849)
fit_number_of_outputs(kind, Y) ==
    CASE kind = "multiclass" -> Max({Y[j] : j \in DOMAIN Y}) + 1
      [] kind = "multioutput" -> Cardinality(DOMAIN Y[1])
      [] kind = "single" -> 1

\* an instance of the class before its first fit: no kernel built, no buffer allocated
UnbuiltOutputs(kind) ==
    [kind |-> kind, number_of_outputs |-> 0, encoded_Y |-> 0, CLASSES |-> 0,
     clause_weights_gpu |-> 0, class_sum_gpu |-> 0, class_clause_update_gpu |-> 0]

\* fit of the class, then _fit -> _init_fit, as far as the output counts go: _init
\* (259-332, with allocate_gpu_memory 105-119) builds the kernels with CLASSES =
\* self.number_of_outputs and sizes clause_weights_gpu and class_sum_gpu, on the first
\* fit only; class_clause_update_gpu is sized when the graph set is bound (371)
FitOutputs(g, Y) ==
    /\ pc = "idle"
    /\ LET n == fit_number_of_outputs(outputs.kind, Y)
       IN  outputs' =
              [outputs EXCEPT
                  !.number_of_outputs = n,
                  !.encoded_Y = n,
                  !.CLASSES = IF initialized THEN @ ELSE n,
                  !.clause_weights_gpu = IF initialized THEN @ ELSE n,
                  !.class_sum_gpu = IF initialized THEN @ ELSE n,
                  !.class_clause_update_gpu = IF Rebinds(FitRole, g) THEN n ELSE @]
    /\ initialized' = TRUE
    /\ graphs_signature' = [graphs_signature EXCEPT ![FitRole] = GraphSets[g].signature]
    /\ op' = "fit"
    /\ ret' = NoResult
    /\ UNCHANGED <<host_arrays, depth, number_of_literals, encoded_Y, ta_state, clause_weights,
                   ta_state_gpu, message_ta_state_gpu, clause_weights_gpu, encoded_X_gpu,
                   edge_gpu, allocated, pc, fit_graphs, fit_epochs, fit_incremental,
                   fit_branch, epoch, e, held, held_score, cfg, cfg_pc, self_hypervectors,
                   codec_vars, kernel_vars>>

\* _score (592-617) as far as the output counts go: the class-sum matrix it returns has
\* self.number_of_outputs columns
ScoreOutputs(g) ==
    /\ pc = "idle"
    /\ initialized
    /\ graphs_signature' = [graphs_signature EXCEPT ![ScoreRole] = GraphSets[g].signature]
    /\ op' = "score"
    /\ ret' = [op |-> "score", rows |-> number_of_graphs(g),
               columns |-> outputs.number_of_outputs]
    /\ UNCHANGED <<host_arrays, outputs, depth, initialized, number_of_literals, encoded_Y,
                   ta_state, clause_weights, ta_state_gpu, message_ta_state_gpu,
                   clause_weights_gpu, encoded_X_gpu, edge_gpu, allocated, pc, fit_graphs,
                   fit_epochs, fit_incremental, fit_branch, epoch, e, held, held_score, cfg,
                   cfg_pc, self_hypervectors, codec_vars, kernel_vars>>

\* a newly constructed instance of one of the three classes
InitOutputs ==
    /\ depth = 1
    /\ initialized = FALSE
    /\ number_of_literals = 0
    /\ graphs_signature = [r \in Roles |-> 0]
    /\ encoded_Y = EmptyArray
    /\ ta_state = EmptyArray
    /\ clause_weights = EmptyArray
    /\ ta_state_gpu = EmptyArray
    /\ message_ta_state_gpu = <<>>
    /\ clause_weights_gpu = EmptyArray
    /\ encoded_X_gpu = [r \in Roles |-> 0]
    /\ edge_gpu = [r \in Roles |-> 0]
    /\ allocated = FALSE
    /\ pc = "idle"
    /\ op = "none"
    /\ fit_graphs = 0
    /\ fit_epochs = 0
    /\ fit_incremental = FALSE
    /\ fit_branch = "none"
    /\ epoch = 0
    /\ e = 0
    /\ ret = NoResult
    /\ held = NoState
    /\ held_score = <<>>
    /\ cfg = InstanceArgs
    /\ cfg_pc = "constructed"
    /\ self_hypervectors \in Hypervectors(InstanceArgs)
    /\ CodecIdle
    /\ KernelIdle
    /\ host_arrays = NoArrays
    /\ outputs \in {UnbuiltOutputs(kind) : kind \in OutputKinds}

NextOutputs ==
    \/ \E g \in GraphIds : \E Y \in OutputLabels(outputs.kind) : FitOutputs(g, Y)
    \/ \E g \in GraphIds : ScoreOutputs(g)

SpecOutputs == InitOutputs /\ [][NextOutputs]_vars

TypeOK ==
    /\ depth \in 1 .. MaxDepth
    /\ initialized \in BOOLEAN
    /\ pc \in {"idle", "fit", "exit"}
    /\ initialized =>
          /\ ta_state_gpu \in [Clauses -> [0 .. number_of_literals - 1 -> States]]
          /\ clause_weights_gpu \in [Outputs -> [Clauses -> -T .. T]]
          /\ Len(message_ta_state_gpu) = depth - 1


(***************************************************************************)
(* The constructor, for arbitrary arguments.                               *)
(***************************************************************************)
ConfigChoices ==
    [number_of_clauses : {-1, 1, 2}, T : {-1, 0, 1}, s : {-1, 0, 2},
     message_size : {0, 1, 3, 4}, message_bits : {1, 2}, double_hashing : BOOLEAN]

\* __init__, lines 89-101: the library calls that raise ValueError
\*   np.zeros with a negative dimension; sympy.prevprime(n) for n <= 2;
\*   np.random.choice(a, size, replace=False) with size > len(a)
ConstructorRaises(a) ==
    \/ a.number_of_clauses < 0
    \/ a.double_hashing /\ a.message_size <= 2
    \/ ~a.double_hashing /\ a.number_of_clauses > 0 /\ a.message_bits > a.message_size

\* __init__
Construct ==
    /\ cfg_pc = "args"
    /\ cfg_pc' = IF ConstructorRaises(cfg) THEN "ValueError" ELSE "constructed"
    /\ self_hypervectors' \in IF ConstructorRaises(cfg) THEN {<<>>} ELSE Hypervectors(cfg)
    /\ UNCHANGED <<host_arrays, outputs, depth, initialized, number_of_literals, graphs_signature, encoded_Y,
                   ta_state, clause_weights, ta_state_gpu, message_ta_state_gpu,
                   clause_weights_gpu, encoded_X_gpu, edge_gpu, allocated, pc, op, fit_graphs,
                   fit_epochs, fit_incremental, fit_branch, epoch, e, ret, held,
                   held_score, cfg, codec_vars, kernel_vars>>

\* the first fit on the constructed instance, up to the first _evaluate:
\* _init_fit (lines 334-377) and _fit (lines 474-485) look at no argument of the constructor
FirstFit ==
    /\ cfg_pc = "constructed"
    /\ cfg_pc' = "evaluating"
    /\ UNCHANGED <<host_arrays, outputs, depth, initialized, number_of_literals, graphs_signature, encoded_Y,
                   ta_state, clause_weights, ta_state_gpu, message_ta_state_gpu,
                   clause_weights_gpu, encoded_X_gpu, edge_gpu, allocated, pc, op, fit_graphs,
                   fit_epochs, fit_incremental, fit_branch, epoch, e, ret, held,
                   held_score, cfg, self_hypervectors, codec_vars,
                   kernel_vars>>

InitCfg ==
    /\ depth = 1
    /\ initialized = FALSE
    /\ number_of_literals = 0
    /\ graphs_signature = [r \in Roles |-> 0]
    /\ encoded_Y = EmptyArray
    /\ ta_state = EmptyArray
    /\ clause_weights = EmptyArray
    /\ ta_state_gpu = EmptyArray
    /\ message_ta_state_gpu = <<>>
    /\ clause_weights_gpu = EmptyArray
    /\ encoded_X_gpu = [r \in Roles |-> 0]
    /\ edge_gpu = [r \in Roles |-> 0]
    /\ allocated = FALSE
    /\ pc = "idle"
    /\ op = "none"
    /\ fit_graphs = 0
    /\ fit_epochs = 0
    /\ fit_incremental = FALSE
    /\ fit_branch = "none"
    /\ epoch = 0
    /\ e = 0
    /\ ret = NoResult
    /\ held = NoState
    /\ held_score = <<>>
    /\ cfg \in ConfigChoices
    /\ cfg_pc = "args"
    /\ self_hypervectors = <<>>
    /\ CodecIdle
    /\ KernelIdle
    /\ host_arrays = NoArrays
    /\ outputs = NoOutputs

NextCfg == Construct \/ FirstFit

SpecCfg == InitCfg /\ [][NextCfg]_vars


(***************************************************************************)
(* fit and predict of the three model classes, around _fit and _score.     *)
(***************************************************************************)
instance_vars ==
    <<depth, initialized, number_of_literals, graphs_signature, encoded_Y, ta_state,
      clause_weights, ta_state_gpu, message_ta_state_gpu, clause_weights_gpu,
      encoded_X_gpu, edge_gpu, allocated, pc, op, fit_graphs, fit_epochs, fit_incremental,
      fit_branch, epoch, e, ret, held, held_score, cfg, cfg_pc, self_hypervectors>>

\* class sums a model may report per class
SumValues == -T .. T

\* predict on the sums score returned: one example of three classes, two
\* examples of two outputs, two examples of the single output
PredictCalls ==
    [fn : {"predict"}, kind : {"multiclass"}, arg : [1 .. 1 -> [0 .. 2 -> SumValues]]]
        \cup [fn : {"predict"}, kind : {"multioutput"}, arg : [1 .. 2 -> [0 .. 1 -> SumValues]]]
        \cup [fn : {"predict"}, kind : {"single"}, arg : [1 .. 2 -> [0 .. 0 -> SumValues]]]

\* fit on label arrays: class indices, a 0/1 matrix (with a stray 2), a 0/1 vector
EncodeCalls ==
    [fn : {"fit"}, kind : {"multiclass"}, arg : [1 .. 3 -> 0 .. 2]]
        \cup [fn : {"fit"}, kind : {"multioutput"}, arg : [1 .. 2 -> [0 .. 1 -> 0 .. 2]]]
        \cup [fn : {"fit"}, kind : {"single"}, arg : [1 .. 3 -> 0 .. 2]]

\* predict: the readout of the class sums
Predict ==
    /\ call.fn = "predict"
    /\ result = NoResult
    /\ result' = [op |-> "predict", value |-> predict(call.kind, call.arg)]
    /\ UNCHANGED <<host_arrays, outputs, instance_vars, call, kernel_vars>>

\* fit, up to the call of _fit: the target encoding
EncodeTargets ==
    /\ call.fn = "fit"
    /\ result = NoResult
    /\ result' = [op |-> "fit", value |-> fit_encoded_Y(call.kind, call.arg)]
    /\ UNCHANGED <<host_arrays, outputs, instance_vars, call, kernel_vars>>

InitCodec ==
    /\ depth = 1
    /\ initialized = FALSE
    /\ number_of_literals = 0
    /\ graphs_signature = [r \in Roles |-> 0]
    /\ encoded_Y = EmptyArray
    /\ ta_state = EmptyArray
    /\ clause_weights = EmptyArray
    /\ ta_state_gpu = EmptyArray
    /\ message_ta_state_gpu = <<>>
    /\ clause_weights_gpu = EmptyArray
    /\ encoded_X_gpu = [r \in Roles |-> 0]
    /\ edge_gpu = [r \in Roles |-> 0]
    /\ allocated = FALSE
    /\ pc = "idle"
    /\ op = "none"
    /\ fit_graphs = 0
    /\ fit_epochs = 0
    /\ fit_incremental = FALSE
    /\ fit_branch = "none"
    /\ epoch = 0
    /\ e = 0
    /\ ret = NoResult
    /\ held = NoState
    /\ held_score = <<>>
    /\ cfg = InstanceArgs
    /\ cfg_pc = "constructed"
    /\ self_hypervectors \in Hypervectors(InstanceArgs)
    /\ call \in PredictCalls \cup EncodeCalls
    /\ result = NoResult
    /\ KernelIdle
    /\ host_arrays = NoArrays
    /\ outputs = NoOutputs

NextCodec == Predict \/ EncodeTargets

SpecCodec == InitCodec /\ [][NextCodec]_vars

(***************************************************************************)
(* ta_action on the packed automaton stores.  A uint32 word is held as the *)
(* set of its bit positions that are 1.                                    *)
(***************************************************************************)
\* _init, lines 262 and 266: number_of_ta_chunks, number_of_message_chunks
number_of_chunks(literals) == (literals - 1) \div 32 + 1

\* bit b of the automaton value v
StateBit(v, b) == (v \div Pow2(b)) % 2 = 1

\* the words of a store, in the order of the device buffer: for clause c, chunk ch
\* and state bit b, word (c * chunks + ch) * bits + b holds bit b of the automata
\* of the literals 32 * ch .. 32 * ch + 31 of clause c
packed_store(st) ==
    LET chunks == number_of_chunks(st.literals)
    IN  [i \in 0 .. st.clauses * chunks * st.bits - 1 |->
            LET b == i % st.bits
                ch == (i \div st.bits) % chunks
                c == i \div (st.bits * chunks)
            IN  {pos \in 0 .. 31 :
                    /\ 32 * ch + pos < st.literals
                    /\ StateBit(st.value[c][32 * ch + pos], b)}]

\* <array>.reshape((clauses, chunks, bits))[clause, chunk, bit] of a flat array
reshaped(flat, chunks, bits, clause, chunk, bit) == flat[(clause * chunks + chunk) * bits + bit]

state_word_lowest(bits) == 0
\* the last index of the third axis: self.number_of_state_bits-1
state_word(bits) == bits - 1

\* ta_action, lines 121-135, on the instance `inst': the store is copied from the
\* device, reshaped, and the word is tested against 1 << (ta % 32)
ta_action(inst, dep, clause, ta) ==
    LET st == IF dep = 0 THEN inst.ta_state_gpu ELSE inst.message_ta_state_gpu[dep]
        word == reshaped(packed_store(st), number_of_chunks(st.literals), st.bits,
                         clause, ta \div 32, state_word(st.bits))
    IN  (word \cap {ta % 32}) # {}

\* the literal counts of the stores: one chunk, a full chunk, and two chunks
ActionLiterals == {2, 32, 34}
ActionStateBits == {1, 2}
ActionClauses == 2
\* the literals looked at: the ends of the first chunk and the start of the second
ProbeLiterals(literals) == {k \in {0, 1, 31, 32, 33} : k < literals}

\* a store in which the automaton of (clause c, literal p) holds v and every other one bg
ProbeStore(literals, bits, c, p, v, bg) ==
    [clauses |-> ActionClauses, literals |-> literals, bits |-> bits,
     value |-> [cc \in 0 .. ActionClauses - 1 |->
                  [k \in 0 .. literals - 1 |-> IF cc = c /\ k = p THEN v ELSE bg]]]
\* the store with every automaton on the other side of the decision boundary
Mirrored(st) ==
    [st EXCEPT !.value = [cc \in DOMAIN st.value |->
                             [k \in DOMAIN st.value[cc] |-> Pow2(st.bits) - 1 - st.value[cc][k]]]]

\* the stores to probe: every probe position and value, the others all 0 or all ones
ProbeStores ==
    UNION {UNION {{ProbeStore(L, bits, c, p, v, bg) :
                      c \in 0 .. ActionClauses - 1, p \in ProbeLiterals(L),
                      v \in 0 .. Pow2(bits) - 1, bg \in {0, Pow2(bits) - 1}} :
                  bits \in ActionStateBits} : L \in ActionLiterals}

\* the instances a ta_action call with depth = dep is made on: the store the call
\* addresses is a probe store, the other stores are its mirror image
ActionInstances(dep) ==
    {[ta_state_gpu |-> IF dep = 0 THEN st ELSE Mirrored(st),
      message_ta_state_gpu |-> [d \in 1 .. MaxDepth |-> IF d = dep THEN st ELSE Mirrored(st)]] :
        st \in ProbeStores}

TaActionCalls ==
    UNION {UNION {{[fn |-> "ta_action", depth |-> dep, clause |-> clause, ta |-> ta,
                    inst |-> inst] :
                      clause \in 0 .. ActionClauses - 1,
                      ta \in ProbeLiterals(inst.ta_state_gpu.literals)} :
                  inst \in ActionInstances(dep)} : dep \in 0 .. MaxDepth}

\* ta_action(depth, clause, ta)
TaActionCall ==
    /\ call.fn = "ta_action"
    /\ result = NoResult
    /\ result' = [op |-> "ta_action",
                  value |-> ta_action(call.inst, call.depth, call.clause, call.ta)]
    /\ UNCHANGED <<host_arrays, outputs, instance_vars, call, kernel_vars>>

InitBits ==
    /\ depth = 1
    /\ initialized = FALSE
    /\ number_of_literals = 0
    /\ graphs_signature = [r \in Roles |-> 0]
    /\ encoded_Y = EmptyArray
    /\ ta_state = EmptyArray
    /\ clause_weights = EmptyArray
    /\ ta_state_gpu = EmptyArray
    /\ message_ta_state_gpu = <<>>
    /\ clause_weights_gpu = EmptyArray
    /\ encoded_X_gpu = [r \in Roles |-> 0]
    /\ edge_gpu = [r \in Roles |-> 0]
    /\ allocated = FALSE
    /\ pc = "idle"
    /\ op = "none"
    /\ fit_graphs = 0
    /\ fit_epochs = 0
    /\ fit_incremental = FALSE
    /\ fit_branch = "none"
    /\ epoch = 0
    /\ e = 0
    /\ ret = NoResult
    /\ held = NoState
    /\ held_score = <<>>
    /\ cfg = InstanceArgs
    /\ cfg_pc = "constructed"
    /\ self_hypervectors \in Hypervectors(InstanceArgs)
    /\ call \in TaActionCalls
    /\ result = NoResult
    /\ KernelIdle
    /\ host_arrays = NoArrays
    /\ outputs = NoOutputs

NextBits == TaActionCall

SpecBits == InitBits /\ [][NextBits]_vars


(***************************************************************************)
(* The kernel sequence, launch by launch.  One first fit call and one      *)
(* inference call are followed statement by statement: every kernel        *)
(* launch, every cuda.Context.synchronize(), every host/device copy and    *)
(* every swap of the two buffer references is one step.  A kernel's        *)
(* writes are applied at its launch; in_flight holds the kernels launched  *)
(* since the last synchronization.                                         *)
(***************************************************************************)
KernelDepths == 1 .. MaxDepth + 1

Stmt(st, kernel, d, fn) == [st |-> st, kernel |-> kernel, d |-> d, fn |-> fn]
Launch(kernel, d, fn) == Stmt("launch", kernel, d, fn)
Synchronize(fn) == Stmt("synchronize", "none", 0, fn)
Memcpy_htod(buffer, fn) == Stmt("memcpy_htod", buffer, 0, fn)
Memcpy_dtoh(buffer, fn) == Stmt("memcpy_dtoh", buffer, 0, fn)
SwapStmt(d) == Stmt("swap", "none", d, "_evaluate")
Return(fn) == Stmt("return", "none", 0, fn)
MemAlloc(buffer, fn) == Stmt("mem_alloc", buffer, 0, fn)

MessageRoundBodyExchangeFirst(d) ==
    << Launch("exchange_messages", d, "_evaluate"), Synchronize("_evaluate"),
       Launch("prepare_messages", d, "_evaluate"), Synchronize("_evaluate"),
       Launch("encode_messages", d, "_evaluate"), Synchronize("_evaluate"),
       Launch("calculate_messages_conditional", d, "_evaluate"), Synchronize("_evaluate"),
       SwapStmt(d) >>

\* _evaluate, lines 410-460: the body of `for depth in range(self.depth-1)`, d = depth + 1
MessageRoundBody(d) ==
    << Launch("prepare_messages", d, "_evaluate"), Synchronize("_evaluate"),
       Launch("exchange_messages", d, "_evaluate"), Synchronize("_evaluate"),
       Launch("encode_messages", d, "_evaluate"), Synchronize("_evaluate"),
       Launch("calculate_messages_conditional", d, "_evaluate"), Synchronize("_evaluate"),
       SwapStmt(d) >>

RECURSIVE MessageRoundsBody(_, _)
\* _evaluate, line 410: for depth in range(self.depth-1)
MessageRoundsBody(d, dpt) ==
    IF d > dpt - 1 THEN <<>> ELSE MessageRoundBody(d) \o MessageRoundsBody(d + 1, dpt)

EvaluateBodyNoBarrier(dpt) ==
    << Memcpy_htod("class_sum_gpu", "_evaluate"),
       Launch("calculate_messages", 0, "_evaluate"), Synchronize("_evaluate") >>
    \o MessageRoundsBody(1, dpt)
    \o << Launch("evaluate", 0, "_evaluate"), Return("_evaluate") >>

\* _evaluate, lines 393-472
EvaluateBody(dpt) ==
    << Memcpy_htod("class_sum_gpu", "_evaluate"),
       Launch("calculate_messages", 0, "_evaluate"), Synchronize("_evaluate") >>
    \o MessageRoundsBody(1, dpt)
    \o << Launch("evaluate", 0, "_evaluate"), Synchronize("_evaluate"), Return("_evaluate") >>

RECURSIVE UpdateMessageBody(_, _)
\* _fit, lines 541-556: for depth in range(self.depth-1): update_message, synchronize
UpdateMessageBody(d, dpt) ==
    IF d > dpt - 1 THEN <<>>
    ELSE << Launch("update_message", d, "_fit"), Synchronize("_fit") >>
         \o UpdateMessageBody(d + 1, dpt)

FitExampleBodyUpdatesFirst(dpt) ==
    << Memcpy_htod("class_sum_gpu", "_fit") >>
    \o EvaluateBody(dpt)
    \o << Launch("select_clause_updates", 0, "_fit"), Synchronize("_fit"),
          Launch("select_clause_node", 0, "_fit"), Synchronize("_fit"),
          Launch("update", 0, "_fit"), Synchronize("_fit") >>
    \o UpdateMessageBody(1, dpt)

\* _fit, lines 480-556: one iteration of `for e in range(graphs.number_of_graphs)`
FitExampleBody(dpt) ==
    << Memcpy_htod("class_sum_gpu", "_fit") >>
    \o EvaluateBody(dpt)
    \o << Launch("select_clause_node", 0, "_fit"), Synchronize("_fit"),
          Launch("select_clause_updates", 0, "_fit"), Synchronize("_fit"),
          Launch("update", 0, "_fit"), Synchronize("_fit") >>
    \o UpdateMessageBody(1, dpt)

\* _score, lines 596-615; transform, lines 624-650; transform_nodewise, lines 661-693:
\* one iteration of the example loop
InferenceExampleBody(name, dpt) ==
    << Memcpy_htod("class_sum_gpu", name) >>
    \o EvaluateBody(dpt)
    \o (IF name = "score" THEN << Memcpy_dtoh("class_sum_gpu", name) >>
        ELSE << MemAlloc("transformed_X_sample_gpu", name),
                Launch(name, 0, name),
                Memcpy_dtoh("class_sum_gpu", name),
                Memcpy_dtoh("transformed_X_sample_gpu", name) >>)

RECURSIVE PrepareMessageBody(_, _)
\* _init_fit, lines 339-340
PrepareMessageBody(d, dpt) ==
    IF d > dpt - 1 THEN <<>>
    ELSE << Launch("prepare_message_ta_state", d, "_init_fit") >> \o PrepareMessageBody(d + 1, dpt)

InitFitBodySurfaceOnly(branch, dpt) ==
    CASE branch = "init" -> << Launch("prepare", 0, "_init_fit"), Synchronize("_init_fit") >>
      [] branch = "reset" -> << Launch("prepare", 0, "_init_fit"), Synchronize("_init_fit") >>
      [] branch = "keep" -> <<>>

\* _init_fit, lines 335-345: the kernels that set up the automaton stores
InitFitBody(branch, dpt) ==
    CASE branch = "init" ->
            << Launch("prepare", 0, "_init_fit") >> \o PrepareMessageBody(1, dpt)
            \o << Synchronize("_init_fit") >>
      [] branch = "reset" -> << Launch("prepare", 0, "_init_fit"), Synchronize("_init_fit") >>
      [] branch = "keep" -> <<>>

\* the graph set and the example (1-based) the running loop iteration works on
CurrentGraphs == IF pc = "fit" THEN fit_graphs ELSE k_call.graphs
CurrentExample == IF pc = "fit" THEN e ELSE k_e

Stamp(kernel, d) == [kernel |-> kernel, d |-> d, e |-> CurrentExample]
\* the s argument of the constructor call: a number (held as the one entry of value),
\* or a tuple with one entry per layer
SArgs ==
    {[tuple |-> FALSE, value |-> [i \in {0} |-> 2]],
     [tuple |-> TRUE, value |-> [i \in 0 .. MaxDepth |-> i + 2]]}
\* __init__, lines 61-65: self.s = (s,) * self.depth unless s is a tuple
self_s == IF cfg.s.tuple THEN cfg.s.value ELSE [i \in 0 .. depth - 1 |-> cfg.s.value[0]]

NoArgs == [s |-> 0, ta |-> "none", X |-> "none", clause_node |-> "none",
           class_clause_update |-> "none"]
\* _fit, lines 527-540: the arguments of the update launch
update_args ==
    [s |-> self_s[0], ta |-> <<"ta_state_gpu", 0>>, X |-> <<"encoded_X_train_gpu", 0>>,
     clause_node |-> "clause_node_gpu", class_clause_update |-> "class_clause_update_gpu"]
update_message_args_same_index(d) ==
    [s |-> self_s[d - 1], ta |-> <<"message_ta_state_gpu", d>>,
     X |-> <<"clause_X_train_gpu", d>>,
     clause_node |-> "clause_node_gpu", class_clause_update |-> "class_clause_update_gpu"]
\* _fit, lines 543-556: the arguments of the update_message launch of round d, where
\* d = depth + 1 for the loop variable of `for depth in range(self.depth-1)':
\* self.s[depth+1], self.message_ta_state_gpu[depth], self.clause_X_train_gpu[depth]
update_message_args(d) ==
    [s |-> self_s[d], ta |-> <<"message_ta_state_gpu", d>>,
     X |-> <<"clause_X_train_gpu", d>>,
     clause_node |-> "clause_node_gpu", class_clause_update |-> "class_clause_update_gpu"]
\* the arguments the launch statement passes besides the clause-node output buffers
prepared_call_args(stmt) ==
    CASE stmt.st = "launch" /\ stmt.kernel = "update" -> update_args
      [] stmt.st = "launch" /\ stmt.kernel = "update_message" -> update_message_args(stmt.d)
      [] OTHER -> NoArgs

LogEntry(stmt, reads, writes) ==
    [st |-> stmt.st, kernel |-> stmt.kernel, d |-> stmt.d, fn |-> stmt.fn,
     reads |-> reads, writes |-> writes, args |-> prepared_call_args(stmt)]

\* everything a kernel launch cannot change: host fields, loop positions, buffer references
launch_fixed ==
    <<depth, initialized, number_of_literals, graphs_signature, encoded_Y, ta_state,
      clause_weights, encoded_X_gpu, edge_gpu, allocated, pc, op, fit_graphs, fit_epochs,
      fit_incremental, fit_branch, epoch, e, ret, held, held_score, cfg, cfg_pc,
      self_hypervectors, call, result, k_called, k_call, k_e, k_steps, current_clause_node_output,
      next_clause_node_output, returned_clause_node_output, k_host, host_arrays, outputs>>

\* <kernel>.prepared_call(grid, block, ...): the next statement is the launch of `kernel';
\* reads / writes name the clause-node output buffers among its arguments
Launched(kernel, reads, writes) ==
    /\ k_todo # <<>>
    /\ Head(k_todo).st = "launch"
    /\ Head(k_todo).kernel = kernel
    /\ k_todo' = Tail(k_todo)
    /\ k_log' = Append(k_log, LogEntry(Head(k_todo), reads, writes))
    /\ in_flight' = in_flight \cup {kernel}
    /\ UNCHANGED launch_fixed

\* _init_fit, lines 337 and 344
K_prepare ==
    /\ Launched("prepare", "none", "none")
    /\ ta_state_gpu' = prepare_ta_state(number_of_literals)
    /\ clause_weights_gpu' \in prepare_clause_weights
    /\ UNCHANGED <<host_arrays, outputs, message_ta_state_gpu, clause_node_output_gpu, clause_X_int_gpu,
                   clause_X_gpu, class_sum_gpu, clause_node_gpu, class_clause_update_gpu,
                   transformed_X_sample_gpu>>

\* _init_fit, line 340
K_prepare_message_ta_state ==
    /\ Launched("prepare_message_ta_state", "none", "none")
    /\ message_ta_state_gpu' =
          [message_ta_state_gpu EXCEPT ![Head(k_todo).d] = prepare_message_ta_state]
    /\ UNCHANGED <<host_arrays, outputs, ta_state_gpu, clause_weights_gpu, clause_node_output_gpu,
                   clause_X_int_gpu, clause_X_gpu, class_sum_gpu, clause_node_gpu,
                   class_clause_update_gpu, transformed_X_sample_gpu>>

\* _evaluate, lines 397-407: layer zero, written to current_clause_node_output
K_calculate_messages ==
    /\ Launched("calculate_messages", "none", current_clause_node_output)
    /\ clause_node_output_gpu' =
          [clause_node_output_gpu EXCEPT ![current_clause_node_output] =
              [val |-> calculate_messages(ta_state_gpu, number_of_literals,
                                          CurrentGraphs, CurrentExample),
               by |-> Stamp("calculate_messages", 0)]]
    /\ UNCHANGED <<host_arrays, outputs, ta_state_gpu, message_ta_state_gpu, clause_weights_gpu, clause_X_int_gpu,
                   clause_X_gpu, class_sum_gpu, clause_node_gpu, class_clause_update_gpu,
                   transformed_X_sample_gpu>>

\* _evaluate, lines 412-418: clears the received message bits
K_prepare_messages ==
    /\ Launched("prepare_messages", "none", "none")
    /\ clause_X_int_gpu' = [n \in Nodes(CurrentGraphs, CurrentExample) |-> {}]
    /\ UNCHANGED <<host_arrays, outputs, ta_state_gpu, message_ta_state_gpu, clause_weights_gpu,
                   clause_node_output_gpu, clause_X_gpu, class_sum_gpu, clause_node_gpu,
                   class_clause_update_gpu, transformed_X_sample_gpu>>

\* the received bits of node n (nothing before the buffer's first use)
Received(n) == IF n \in DOMAIN clause_X_int_gpu THEN clause_X_int_gpu[n] ELSE {}

\* _evaluate, lines 421-433: ORs the messages of the satisfied clauses of
\* current_clause_node_output into the received bits
K_exchange_messages ==
    /\ Launched("exchange_messages", current_clause_node_output, "none")
    /\ clause_X_int_gpu' =
          [n \in Nodes(CurrentGraphs, CurrentExample) |->
              Received(n) \cup
              exchange_messages(clause_node_output_gpu[current_clause_node_output].val,
                                CurrentGraphs, CurrentExample)[n]]
    /\ UNCHANGED <<host_arrays, outputs, ta_state_gpu, message_ta_state_gpu, clause_weights_gpu,
                   clause_node_output_gpu, clause_X_gpu, class_sum_gpu, clause_node_gpu,
                   class_clause_update_gpu, transformed_X_sample_gpu>>

\* _evaluate, lines 436-443: clause_X_int into clause_X[depth]
K_encode_messages ==
    /\ Launched("encode_messages", "none", "none")
    /\ clause_X_gpu' =
          [clause_X_gpu EXCEPT ![Head(k_todo).d] =
              encode_messages([n \in Nodes(CurrentGraphs, CurrentExample) |-> Received(n)])]
    /\ UNCHANGED <<host_arrays, outputs, ta_state_gpu, message_ta_state_gpu, clause_weights_gpu,
                   clause_node_output_gpu, clause_X_int_gpu, class_sum_gpu, clause_node_gpu,
                   class_clause_update_gpu, transformed_X_sample_gpu>>

\* _evaluate, lines 446-456: reads current_clause_node_output, writes next_clause_node_output
K_calculate_messages_conditional ==
    /\ Launched("calculate_messages_conditional", current_clause_node_output,
                next_clause_node_output)
    /\ clause_node_output_gpu' =
          [clause_node_output_gpu EXCEPT ![next_clause_node_output] =
              [val |-> calculate_messages_conditional(
                           message_ta_state_gpu[Head(k_todo).d],
                           clause_node_output_gpu[current_clause_node_output].val,
                           clause_X_gpu[Head(k_todo).d]),
               by |-> Stamp("calculate_messages_conditional", Head(k_todo).d)]]
    /\ UNCHANGED <<host_arrays, outputs, ta_state_gpu, message_ta_state_gpu, clause_weights_gpu, clause_X_int_gpu,
                   clause_X_gpu, class_sum_gpu, clause_node_gpu, class_clause_update_gpu,
                   transformed_X_sample_gpu>>

\* _evaluate, lines 462-470: adds the votes of current_clause_node_output to class_sum_gpu
K_evaluate ==
    /\ Launched("evaluate", current_clause_node_output, "none")
    /\ class_sum_gpu' =
          [o \in Outputs |->
              class_sum_gpu[o]
              + evaluate(clause_node_output_gpu[current_clause_node_output].val,
                         clause_weights_gpu)[o]]
    /\ UNCHANGED <<host_arrays, outputs, ta_state_gpu, message_ta_state_gpu, clause_weights_gpu,
                   clause_node_output_gpu, clause_X_int_gpu, clause_X_gpu, clause_node_gpu,
                   class_clause_update_gpu, transformed_X_sample_gpu>>

\* _fit, lines 502-510: on the buffer _evaluate returned
K_select_clause_node ==
    /\ Launched("select_clause_node", returned_clause_node_output, "none")
    /\ clause_node_gpu' \in
          select_clause_node(clause_node_output_gpu[returned_clause_node_output].val)
    /\ UNCHANGED <<host_arrays, outputs, ta_state_gpu, message_ta_state_gpu, clause_weights_gpu,
                   clause_node_output_gpu, clause_X_int_gpu, clause_X_gpu, class_sum_gpu,
                   class_clause_update_gpu, transformed_X_sample_gpu>>

\* the feedback type the update kernels find for (class, clause): the drawn
\* direction combined with the sign the weight had when it was drawn
FeedbackType(u, w) == [o \in Outputs |-> [c \in Clauses |-> u[o][c] * Sign(w[o][c])]]
Ones == [o \in Outputs |-> [c \in Clauses |-> 1]]

\* _fit, lines 513-524: reads class_sum_gpu, encoded_Y_gpu[e] and clause_node_gpu,
\* moves the weights, leaves the feedback types in class_clause_update_gpu
K_select_clause_updates ==
    /\ Launched("select_clause_updates", "none", "none")
    /\ \E u \in select_clause_updates(class_sum_gpu, encoded_Y[e]) :
          /\ clause_weights_gpu' = UpdatedWeights(clause_weights_gpu, u, clause_node_gpu)
          /\ class_clause_update_gpu' = FeedbackType(u, clause_weights_gpu)
    /\ UNCHANGED <<host_arrays, outputs, ta_state_gpu, message_ta_state_gpu, clause_node_output_gpu,
                   clause_X_int_gpu, clause_X_gpu, class_sum_gpu, clause_node_gpu,
                   transformed_X_sample_gpu>>

\* _fit, lines 527-540
K_update ==
    /\ Launched("update", "none", "none")
    /\ ta_state_gpu' \in
          update(ta_state_gpu,
                 NodeLiterals(number_of_literals, fit_graphs, e, clause_node_gpu),
                 clause_node_gpu, class_clause_update_gpu, Ones)
    /\ UNCHANGED <<host_arrays, outputs, message_ta_state_gpu, clause_weights_gpu, clause_node_output_gpu,
                   clause_X_int_gpu, clause_X_gpu, class_sum_gpu, clause_node_gpu,
                   class_clause_update_gpu, transformed_X_sample_gpu>>

\* _fit, lines 544-556
K_update_message ==
    /\ Launched("update_message", "none", "none")
    /\ LET a == update_message_args(Head(k_todo).d)
       IN  \E t \in update(message_ta_state_gpu[a.ta[2]],
                           NodeMessageLiterals(clause_X_gpu[a.X[2]], clause_node_gpu),
                           clause_node_gpu, class_clause_update_gpu, Ones) :
              message_ta_state_gpu' = [message_ta_state_gpu EXCEPT ![a.ta[2]] = t]
    /\ UNCHANGED <<host_arrays, outputs, ta_state_gpu, clause_weights_gpu, clause_node_output_gpu,
                   clause_X_int_gpu, clause_X_gpu, class_sum_gpu, clause_node_gpu,
                   class_clause_update_gpu, transformed_X_sample_gpu>>

\* transform, lines 644-650; transform_nodewise, lines 686-692: on the buffer _evaluate returned
K_transform ==
    /\ \E name \in {"transform", "transform_nodewise"} :
          /\ Launched(name, returned_clause_node_output, "none")
          /\ transformed_X_sample_gpu' =
                IF name = "transform"
                THEN transform_gpu(clause_node_output_gpu[returned_clause_node_output].val)
                ELSE transform_nodewise_gpu(
                         clause_node_output_gpu[returned_clause_node_output].val,
                         CurrentGraphs, CurrentExample)
    /\ UNCHANGED <<host_arrays, outputs, ta_state_gpu, message_ta_state_gpu, clause_weights_gpu,
                   clause_node_output_gpu, clause_X_int_gpu, clause_X_gpu, class_sum_gpu,
                   clause_node_gpu, class_clause_update_gpu>>

\* a statement that is not a kernel launch is executed
Stepped(st) ==
    /\ k_todo # <<>>
    /\ Head(k_todo).st = st
    /\ k_todo' = Tail(k_todo)
    /\ k_log' = Append(k_log, LogEntry(Head(k_todo), "none", "none"))

kernel_buffers ==
    <<clause_node_output_gpu, clause_X_int_gpu, clause_X_gpu, class_sum_gpu, clause_node_gpu,
      class_clause_update_gpu, transformed_X_sample_gpu>>
kernel_locals ==
    <<current_clause_node_output, next_clause_node_output, returned_clause_node_output>>

\* cuda.Context.synchronize(): every kernel launched so far has finished
KSynchronize ==
    /\ Stepped("synchronize")
    /\ in_flight' = {}
    /\ UNCHANGED <<host_arrays, outputs, instance_vars, codec_vars, k_called, k_call, k_e, k_steps, kernel_locals,
                   kernel_buffers, k_host>>

swap_none(cur, nxt) == <<cur, nxt>>
\* _evaluate, lines 458-460: tmp = current; current = next; next = tmp
swap(cur, nxt) == <<nxt, cur>>

KSwap ==
    /\ Stepped("swap")
    /\ current_clause_node_output' =
          swap(current_clause_node_output, next_clause_node_output)[1]
    /\ next_clause_node_output' =
          swap(current_clause_node_output, next_clause_node_output)[2]
    /\ UNCHANGED <<host_arrays, outputs, instance_vars, codec_vars, k_called, k_call, k_e, k_steps, in_flight,
                   returned_clause_node_output, kernel_buffers, k_host>>

ReturnedBufferPassedIn == "current"
\* _evaluate, line 472: return current_clause_node_output
ReturnedBuffer == current_clause_node_output

KReturn ==
    /\ Stepped("return")
    /\ returned_clause_node_output' = ReturnedBuffer
    /\ UNCHANGED <<host_arrays, outputs, instance_vars, codec_vars, k_called, k_call, k_e, k_steps, in_flight,
                   current_clause_node_output, next_clause_node_output, kernel_buffers,
                   k_host>>

\* transform, line 643; transform_nodewise, lines 683-685
KMemAlloc ==
    /\ Stepped("mem_alloc")
    /\ transformed_X_sample_gpu' = EmptyArray
    /\ UNCHANGED <<host_arrays, outputs, instance_vars, codec_vars, k_called, k_call, k_e, k_steps, in_flight,
                   kernel_locals, clause_node_output_gpu, clause_X_int_gpu, clause_X_gpu,
                   class_sum_gpu, clause_node_gpu, class_clause_update_gpu, k_host>>

class_sum_not_copied == class_sum_gpu
\* the host array the example loops upload: np.zeros(self.number_of_outputs) (_evaluate
\* 393, _fit 477), and row e of the np.zeros matrix of _score (595), transform (622)
\* and transform_nodewise (661), which is written only after example e was evaluated
class_sum_host == [o \in Outputs |-> 0]

\* cuda.memcpy_htod(self.class_sum_gpu, <zeros>): _fit 480-481, _evaluate 393-394,
\* _score 597, transform 625, transform_nodewise 665; a blocking copy returns
\* after the kernels launched before it have finished
KMemcpyHtod ==
    /\ Stepped("memcpy_htod")
    /\ class_sum_gpu' = class_sum_host
    /\ in_flight' = {}
    /\ UNCHANGED <<host_arrays, outputs, instance_vars, codec_vars, k_called, k_call, k_e, k_steps,
                   kernel_locals, clause_node_output_gpu, clause_X_int_gpu, clause_X_gpu,
                   clause_node_gpu, class_clause_update_gpu, transformed_X_sample_gpu,
                   k_host>>

\* cuda.memcpy_dtoh(class_sum[e, :], self.class_sum_gpu) and
\* cuda.memcpy_dtoh(transformed_X[e, :], transformed_X_sample_gpu)
KMemcpyDtoh ==
    /\ Stepped("memcpy_dtoh")
    /\ k_host' =
          IF Head(k_todo).kernel = "class_sum_gpu"
          THEN [k_host EXCEPT !.class_sum = Append(@, class_sum_gpu)]
          ELSE [k_host EXCEPT !.transformed_X = Append(@, transformed_X_sample_gpu)]
    /\ in_flight' = {}
    /\ UNCHANGED <<host_arrays, outputs, instance_vars, codec_vars, k_called, k_call, k_e, k_steps, kernel_locals,
                   kernel_buffers>>

\* the work buffers _init_fit (353-360) and _score_init (574-581) allocate with the
\* graph set; fresh device memory is taken to be zero-filled
AllocateWorkBuffers ==
    IF allocated'
    THEN /\ clause_node_output_gpu' = [b \in Buffers |-> Unwritten]
         /\ clause_X_int_gpu' = EmptyArray
         /\ clause_X_gpu' = [d \in 1 .. depth - 1 |-> EmptyArray]
    ELSE UNCHANGED <<clause_node_output_gpu, clause_X_int_gpu, clause_X_gpu>>

\* _init_fit, lines 347-377: the graph set and the targets are bound to the training role
KBindFit ==
    /\ Stepped("bind")
    /\ Head(k_todo).fn = "_init_fit"
    /\ BindGraphs(FitRole, fit_graphs)
    /\ AllocateWorkBuffers
    /\ in_flight' = {}
    /\ class_clause_update_gpu' = [o \in Outputs |-> [c \in Clauses |-> 0]]
    /\ \E Y \in LabelChoices(fit_graphs) : encoded_Y' = EncodeY(Y)
    /\ UNCHANGED <<host_arrays, outputs, depth, initialized, number_of_literals, ta_state, clause_weights,
                   ta_state_gpu, message_ta_state_gpu, clause_weights_gpu, pc, op,
                   fit_graphs, fit_epochs, fit_incremental, fit_branch, epoch, e, ret, held,
                   held_score, cfg, cfg_pc, self_hypervectors, codec_vars, k_called, k_call,
                   k_e, k_steps, kernel_locals, class_sum_gpu, clause_node_gpu,
                   transformed_X_sample_gpu, k_host>>

\* _score_init, lines 568-590: the graph set is bound to the test role
KBindScore ==
    /\ Stepped("bind")
    /\ Head(k_todo).fn = "_score_init"
    /\ BindGraphs(ScoreRole, k_call.graphs)
    /\ AllocateWorkBuffers
    /\ in_flight' = {}
    /\ UNCHANGED <<host_arrays, outputs, depth, initialized, number_of_literals, encoded_Y, ta_state,
                   clause_weights, ta_state_gpu, message_ta_state_gpu, clause_weights_gpu,
                   pc, op, fit_graphs, fit_epochs, fit_incremental, fit_branch, epoch, e,
                   ret, held, held_score, cfg, cfg_pc, self_hypervectors, codec_vars,
                   k_called, k_call, k_e, k_steps, kernel_locals, class_sum_gpu,
                   clause_node_gpu, class_clause_update_gpu, transformed_X_sample_gpu,
                   k_host>>

Bind(fn) == Stmt("bind", "graphs", 0, fn)

\* the first fit call: fit -> _fit -> _init_fit up to its first kernel launch
\* (_init, lines 259-284, compiles the kernels and allocates the stores)
KFit(g, epochs) ==
    /\ pc = "idle"
    /\ k_call = NoCall
    /\ "fit" \notin k_called
    /\ ~initialized
    /\ k_called' = k_called \cup {"fit"}
    /\ op' = "fit"
    /\ pc' = "fit"
    /\ number_of_literals' = 2 * GraphSets[g].hypervector_size
    /\ initialized' = TRUE
    /\ message_ta_state_gpu' = [d \in 1 .. depth - 1 |-> EmptyArray]
    /\ class_sum_gpu' = [o \in Outputs |-> 0]
    /\ clause_node_gpu' = [c \in Clauses |-> NoNode]
    /\ fit_graphs' = g
    /\ fit_epochs' = epochs
    /\ fit_incremental' = FALSE
    /\ fit_branch' = "init"
    /\ k_steps' = <<>>
    /\ epoch' = 0
    /\ e' = 0
    /\ ret' = NoResult
    /\ k_todo' = InitFitBody("init", depth) \o << Bind("_init_fit") >>
    /\ k_log' = <<>>
    /\ UNCHANGED <<host_arrays, outputs, depth, graphs_signature, encoded_Y, ta_state, clause_weights,
                   ta_state_gpu, clause_weights_gpu, encoded_X_gpu, edge_gpu, allocated,
                   held, held_score, cfg, cfg_pc, self_hypervectors, codec_vars, k_call,
                   k_e, in_flight, kernel_locals, clause_node_output_gpu, clause_X_int_gpu,
                   clause_X_gpu, class_clause_update_gpu, transformed_X_sample_gpu, k_host>>

\* a later fit call, on the initialized model: _init_fit takes the elif branch (343-345)
\* when incremental is False and launches nothing when it is True
KRefit(g, epochs, incremental) ==
    /\ pc = "idle"
    /\ k_call = NoCall
    /\ "fit" \in k_called
    /\ "refit" \notin k_called
    /\ initialized
    /\ k_called' = k_called \cup {"refit"}
    /\ op' = "fit"
    /\ pc' = "fit"
    /\ fit_graphs' = g
    /\ fit_epochs' = epochs
    /\ fit_incremental' = incremental
    /\ fit_branch' = IF incremental THEN "keep" ELSE "reset"
    /\ k_steps' = <<>>
    /\ epoch' = 0
    /\ e' = 0
    /\ ret' = NoResult
    /\ k_todo' = InitFitBody(fit_branch', depth) \o << Bind("_init_fit") >>
    /\ k_log' = <<>>
    /\ UNCHANGED <<host_arrays, outputs, depth, initialized, number_of_literals, graphs_signature, encoded_Y,
                   ta_state, clause_weights, ta_state_gpu, message_ta_state_gpu,
                   clause_weights_gpu, encoded_X_gpu, edge_gpu, allocated, held, held_score,
                   cfg, cfg_pc, self_hypervectors, codec_vars, k_call, k_e, in_flight,
                   kernel_locals, kernel_buffers, k_host>>

FitHasNextOneMore == epoch < fit_epochs + 1 /\ (e < number_of_graphs(fit_graphs) \/ epoch < fit_epochs)

\* _fit, lines 478-479: `for epoch in range(epochs): for e in range(graphs.number_of_graphs)`
\* has another iteration; epoch counts the epochs begun before the current one, e is the
\* 1-based index of the example last started in it (0: the loops are not entered yet)
FitHasNext ==
    epoch < fit_epochs /\ (e < number_of_graphs(fit_graphs) \/ epoch + 1 < fit_epochs)

\* _fit, lines 478-497: the next iteration of the example loop starts; _evaluate is
\* called with the two buffers of the training role
KFitNext ==
    /\ pc = "fit"
    /\ k_todo = <<>>
    /\ FitHasNext
    /\ IF e < number_of_graphs(fit_graphs)
       THEN e' = e + 1 /\ epoch' = epoch
       ELSE e' = 1 /\ epoch' = epoch + 1
    /\ k_steps' = Append(k_steps, <<epoch', e'>>)
    /\ k_todo' = FitExampleBody(depth)
    /\ k_log' = <<>>
    /\ current_clause_node_output' = "current"
    /\ next_clause_node_output' = "next"
    /\ returned_clause_node_output' = "none"
    /\ UNCHANGED <<host_arrays, outputs, depth, initialized, number_of_literals, graphs_signature, encoded_Y,
                   ta_state, clause_weights, ta_state_gpu, message_ta_state_gpu,
                   clause_weights_gpu, encoded_X_gpu, edge_gpu, allocated, pc, op,
                   fit_graphs, fit_epochs, fit_incremental, fit_branch, ret, held,
                   held_score, cfg, cfg_pc, self_hypervectors, codec_vars, k_called, k_call,
                   k_e, in_flight, kernel_buffers, k_host>>

\* _fit, lines 558-561: the loops are over
KFitReturn ==
    /\ pc = "fit"
    /\ k_todo = <<>>
    /\ ~FitHasNext
    /\ k_steps' = <<>>
    /\ ta_state' = EmptyArray
    /\ clause_weights' = EmptyArray
    /\ pc' = "idle"
    /\ fit_graphs' = 0
    /\ fit_epochs' = 0
    /\ fit_incremental' = FALSE
    /\ fit_branch' = "none"
    /\ epoch' = 0
    /\ e' = 0
    /\ k_log' = <<>>
    /\ returned_clause_node_output' = "none"
    /\ UNCHANGED <<host_arrays, outputs, depth, initialized, number_of_literals, graphs_signature, encoded_Y,
                   ta_state_gpu, message_ta_state_gpu, clause_weights_gpu, encoded_X_gpu,
                   edge_gpu, allocated, op, ret, held, held_score, cfg, cfg_pc,
                   self_hypervectors, codec_vars, k_called, k_call, k_e, k_todo, in_flight,
                   current_clause_node_output, next_clause_node_output, kernel_buffers,
                   k_host>>

\* score (_score), transform, transform_nodewise: the call, up to _score_init's test
KInference(name, g) ==
    /\ pc = "idle"
    /\ k_call = NoCall
    /\ "inference" \notin k_called
    /\ k_called' = k_called \cup {"inference"}
    /\ op' = name
    /\ IF ScoreInitRejects
       THEN /\ ScoreRejected
            /\ UNCHANGED <<host_arrays, outputs, k_call, k_e, k_todo, k_log, k_host>>
       ELSE /\ k_call' = [fn |-> name, graphs |-> g]
            /\ k_e' = 0
            /\ k_todo' = << Bind("_score_init") >>
            /\ k_log' = <<>>
            /\ k_host' = NoHost
            /\ ret' = NoResult
            /\ UNCHANGED <<host_arrays, outputs, pc, graphs_signature, encoded_X_gpu, edge_gpu, allocated>>
    /\ UNCHANGED <<host_arrays, outputs, depth, initialized, number_of_literals, encoded_Y, ta_state,
                   clause_weights, ta_state_gpu, message_ta_state_gpu, clause_weights_gpu,
                   fit_graphs, fit_epochs, fit_incremental, fit_branch, epoch, e, held,
                   held_score, cfg, cfg_pc, self_hypervectors, codec_vars, in_flight,
                   k_steps, kernel_locals, kernel_buffers>>

\* the next iteration of the example loop of _score / transform / transform_nodewise;
\* _evaluate is called with the two buffers of the test role
KInferenceNext ==
    /\ k_call # NoCall
    /\ k_todo = <<>>
    /\ k_e < number_of_graphs(k_call.graphs)
    /\ k_e' = k_e + 1
    /\ k_todo' = InferenceExampleBody(k_call.fn, depth)
    /\ k_log' = <<>>
    /\ current_clause_node_output' = "current"
    /\ next_clause_node_output' = "next"
    /\ returned_clause_node_output' = "none"
    /\ UNCHANGED <<host_arrays, outputs, instance_vars, codec_vars, k_called, k_call, k_steps, in_flight,
                   kernel_buffers, k_host>>

\* the return of _score / transform / transform_nodewise
KInferenceReturn ==
    /\ k_call # NoCall
    /\ k_todo = <<>>
    /\ k_e = number_of_graphs(k_call.graphs)
    /\ ret' = [graphs |-> k_call.graphs,
               value |-> IF k_call.fn = "score" THEN k_host.class_sum
                         ELSE [ex \in Examples(k_call.graphs) |->
                                  <<k_host.transformed_X[ex], k_host.class_sum[ex]>>]]
    /\ k_call' = NoCall
    /\ k_e' = 0
    /\ k_log' = <<>>
    /\ returned_clause_node_output' = "none"
    /\ UNCHANGED <<host_arrays, outputs, depth, initialized, number_of_literals, graphs_signature, encoded_Y,
                   ta_state, clause_weights, ta_state_gpu, message_ta_state_gpu,
                   clause_weights_gpu, encoded_X_gpu, edge_gpu, allocated, pc, op,
                   fit_graphs, fit_epochs, fit_incremental, fit_branch, epoch, e, held,
                   held_score, cfg, cfg_pc, self_hypervectors, codec_vars, k_called, k_todo,
                   k_steps, in_flight, current_clause_node_output, next_clause_node_output,
                   kernel_buffers, k_host>>

InitKernels ==
    /\ depth \in KernelDepths
    /\ initialized = FALSE
    /\ number_of_literals = 0
    /\ graphs_signature = [r \in Roles |-> 0]
    /\ encoded_Y = EmptyArray
    /\ ta_state = EmptyArray
    /\ clause_weights = EmptyArray
    /\ ta_state_gpu = EmptyArray
    /\ message_ta_state_gpu = <<>>
    /\ clause_weights_gpu = EmptyArray
    /\ encoded_X_gpu = [r \in Roles |-> 0]
    /\ edge_gpu = [r \in Roles |-> 0]
    /\ allocated = FALSE
    /\ pc = "idle"
    /\ op = "none"
    /\ fit_graphs = 0
    /\ fit_epochs = 0
    /\ fit_incremental = FALSE
    /\ fit_branch = "none"
    /\ epoch = 0
    /\ e = 0
    /\ ret = NoResult
    /\ held = NoState
    /\ held_score = <<>>
    /\ cfg \in {[InstanceArgs EXCEPT !.s = sv] : sv \in SArgs}
    /\ cfg_pc = "constructed"
    /\ self_hypervectors \in Hypervectors(InstanceArgs)
    /\ CodecIdle
    /\ KernelIdle
    /\ host_arrays = NoArrays
    /\ outputs = NoOutputs

NextKernels ==
    \/ \E g \in KernelGraphIds : \E epochs \in 0 .. MaxEpochs : KFit(g, epochs)
    \/ KBindFit
    \/ KFitNext
    \/ KFitReturn
    \/ \E name \in InferenceOps : \E g \in KernelGraphIds : KInference(name, g)
    \/ KBindScore
    \/ KInferenceNext
    \/ KInferenceReturn
    \/ K_prepare
    \/ K_prepare_message_ta_state
    \/ K_calculate_messages
    \/ K_prepare_messages
    \/ K_exchange_messages
    \/ K_encode_messages
    \/ K_calculate_messages_conditional
    \/ K_evaluate
    \/ K_select_clause_node
    \/ K_select_clause_updates
    \/ K_update
    \/ K_update_message
    \/ K_transform
    \/ KSynchronize
    \/ KSwap
    \/ KReturn
    \/ KMemAlloc
    \/ KMemcpyHtod
    \/ KMemcpyDtoh

SpecKernels == InitKernels /\ [][NextKernels]_vars

\* the same calls when the interpreter keeps executing the statements of a running call
SpecKernelsLive == InitKernels /\ [][NextKernels]_vars /\ WF_vars(NextKernels)

\* the life of one instance over two fit calls with get_state / set_state between
\* and after them, the fit calls followed statement by statement; every call passes
\* the first graph set, the first fit runs one epoch
LifecycleGraphIds == {1}
InitLifecycle ==
    /\ InitKernels
    /\ ~cfg.s.tuple
    /\ depth \in 1 .. MaxDepth

NextLifecycle ==
    \/ \E g \in LifecycleGraphIds : KFit(g, 1)
    \/ \E g \in LifecycleGraphIds : \E epochs \in 0 .. MaxEpochs - 1 :
          \E incremental \in BOOLEAN : KRefit(g, epochs, incremental)
    \/ KBindFit
    \/ KFitNext
    \/ KFitReturn
    \/ GetState
    \/ SetState
    \/ K_prepare
    \/ K_prepare_message_ta_state
    \/ K_calculate_messages
    \/ K_prepare_messages
    \/ K_exchange_messages
    \/ K_encode_messages
    \/ K_calculate_messages_conditional
    \/ K_evaluate
    \/ K_select_clause_node
    \/ K_select_clause_updates
    \/ K_update
    \/ K_update_message
    \/ KSynchronize
    \/ KSwap
    \/ KReturn
    \/ KMemcpyHtod

SpecLifecycle == InitLifecycle /\ [][NextLifecycle]_vars


(***************************************************************************)
(* Properties.                                                             *)
(***************************************************************************)
Device == <<ta_state_gpu, message_ta_state_gpu, clause_weights_gpu>>
SomeIncluded(store) == \E c \in Clauses : \E k \in DOMAIN store[c] : action(store[c], k)
NeutralSurface == ta_state_gpu = prepare_ta_state(number_of_literals)
NeutralWeights == clause_weights_gpu \in prepare_clause_weights
NeutralMessages ==
    /\ Len(message_ta_state_gpu) = depth - 1
    /\ \A d \in 1 .. depth - 1 : message_ta_state_gpu[d] = prepare_message_ta_state
FitEntry == pc = "idle" /\ pc' = "fit"
InferenceCall == pc = "idle" /\ op' \in InferenceOps
BeforeFirstExample == pc = "fit" /\ epoch = 0 /\ e = 1
Signature(g) == GraphSets[g].signature
\* the signature of the graph set whose buffers are on the device for a role
LastBound(role) == IF encoded_X_gpu[role] = 0 THEN 0 ELSE Signature(encoded_X_gpu[role])
ShapeMatches(g) == 2 * GraphSets[g].hypervector_size = number_of_literals

\* C1: on a trained model of any depth, set_state(get_state()) leaves the sums that
\* score returns, for every graph set, example and class, exactly as they were.
RoundTripKeepsScore == [][op' = "round_trip" => ScoreTable' = ScoreTable]_vars

RoundTripOnTrained ==
    /\ op = "round_trip"
    /\ depth > 1
    /\ SomeIncluded(ta_state_gpu)
    /\ SomeIncluded(message_ta_state_gpu[1])
    /\ clause_weights_gpu \notin prepare_clause_weights

\* C2: after set_state(snapshot), score returns what it returned when the snapshot
\* was taken, whatever incremental training happened in between and for every depth.
SnapshotRestoresScore == [][op' = "set_state" => ScoreTable' = held_score]_vars

\* C3: score, transform and transform_nodewise on a model that was never fitted end
\* in sys.exit: nothing is returned, no test buffer is bound, no device state changes.
InferenceBeforeFitExits ==
    [][(InferenceCall /\ ~initialized) =>
          /\ pc' = "exit"
          /\ ret' = NoResult
          /\ UNCHANGED <<graphs_signature, encoded_X_gpu, edge_gpu, allocated, Device>>]_vars

ExitedBeforeFit ==
    /\ pc = "exit"
    /\ op \in InferenceOps
    /\ ~initialized
    /\ ret = NoResult
    /\ encoded_X_gpu["test"] = 0

\* C4 (as claimed): fit with incremental=True on a model no graph set has
\* initialized fails instead of entering the training loop.
IncrementalFirstFitFails ==
    [][(pc = "idle" /\ ~initialized /\ op' = "fit" /\ fit_incremental') => pc' # "fit"]_vars

\* C4 (amended): fit with incremental=True on a model no graph set has initialized
\* initializes it, prepares every automaton store and the weights, and enters the
\* training loop.
IncrementalFirstFitInitializes ==
    [][(pc = "idle" /\ ~initialized /\ op' = "fit" /\ fit_incremental') =>
          /\ pc' = "fit"
          /\ initialized'
          /\ NeutralSurface'
          /\ NeutralWeights'
          /\ NeutralMessages']_vars

IncrementalFirstFitTrains ==
    /\ pc = "fit"
    /\ fit_branch = "init"
    /\ fit_incremental
    /\ epoch > 0 \/ e > 1

\* C5: when a fit with incremental=False on an initialized model reaches its first
\* example, the surface automata, every message automaton store and the weights
\* are at their initial values.
RefitResetsEveryStore ==
    (BeforeFirstExample /\ fit_branch = "reset") =>
        (NeutralSurface /\ NeutralWeights /\ NeutralMessages)

\* C6: a fit with incremental=True on an initialized model prepares nothing: the
\* automata and the weights its first example meets are the ones the model had
\* when fit was called; a fit call changes them before its first example only
\* when the model was not initialized or incremental=False was passed.
IncrementalFitKeepsState ==
    [][FitEntry =>
          /\ (initialized /\ fit_incremental') => UNCHANGED Device
          /\ (Device' # Device) => (~initialized \/ ~fit_incremental')]_vars

IncrementalFitOnTrained ==
    /\ BeforeFirstExample
    /\ fit_branch = "keep"
    /\ fit_epochs > 0
    /\ SomeIncluded(ta_state_gpu)

\* what the inference call made last would return if it were made again now
Replay == InferenceValue(op, ret.graphs)

\* C7: score, transform and transform_nodewise change neither the automata, nor the
\* weights, nor the training buffers, the training signature and the targets; so
\* the same call made again right after it returns what it returned.
InferenceLeavesModel ==
    /\ [][InferenceCall =>
          /\ UNCHANGED <<Device, encoded_Y, initialized, number_of_literals, depth>>
          /\ graphs_signature'["train"] = graphs_signature["train"]
          /\ encoded_X_gpu'["train"] = encoded_X_gpu["train"]]_vars
    /\ []((pc = "idle" /\ op \in InferenceOps) => Replay = ret.value)

ScoredBetweenFits ==
    /\ op \in InferenceOps
    /\ ret # NoResult
    /\ SomeIncluded(ta_state_gpu)
    /\ graphs_signature["train"] # 0
    /\ graphs_signature["test"] # graphs_signature["train"]

\* C8 (as claimed): a call reallocates the per-graph-set buffers of its role exactly
\* when the signature of its graph set differs from the signature of the graph set
\* bound last for that role.
ReallocIffNotLastBound ==
    [][/\ FitEntry => (allocated' <=> Signature(fit_graphs') # LastBound("train"))
       /\ (InferenceCall /\ initialized) =>
             (allocated' <=> Signature(ret'.graphs) # LastBound("test"))]_vars

\* C8 (amended): a call reallocates and re-uploads the per-graph-set buffers of its
\* role exactly when the signature of its graph set differs from the signature
\* recorded for that role, which set_state clears; otherwise the buffers stay, and
\* no iteration of the loops of fit reallocates.
ReallocIffSignatureDiffers ==
    [][/\ FitEntry =>
             /\ allocated' <=> Signature(fit_graphs') # graphs_signature["train"]
             /\ encoded_X_gpu'["train"] = IF allocated' THEN fit_graphs' ELSE encoded_X_gpu["train"]
             /\ encoded_X_gpu'["test"] = encoded_X_gpu["test"]
       /\ (InferenceCall /\ initialized) =>
             /\ allocated' <=> Signature(ret'.graphs) # graphs_signature["test"]
             /\ encoded_X_gpu'["test"] = IF allocated' THEN ret'.graphs ELSE encoded_X_gpu["test"]
             /\ encoded_X_gpu'["train"] = encoded_X_gpu["train"]
       /\ (pc = "fit" /\ pc' = "fit") => UNCHANGED <<allocated, encoded_X_gpu, graphs_signature>>]_vars

BuffersReusedAcrossEpochs ==
    /\ pc = "fit"
    /\ ~allocated
    /\ epoch = fit_epochs
    /\ fit_epochs > 1
    /\ encoded_X_gpu["train"] = fit_graphs

\* C9: a fit, score or transform call with a graph set whose literal count differs
\* from the one the model was initialized with evaluates no example and returns
\* no result.
MismatchedShapeRejected ==
    /\ ret # NoResult => ShapeMatches(ret.graphs)
    /\ (pc = "fit" /\ (epoch > 0 \/ e > 1)) => ShapeMatches(fit_graphs)

InvalidConfig(a) ==
    a.T <= 0 \/ a.s <= 0 \/ a.number_of_clauses < 0 \/ a.message_size = 0

\* C10: with a non-positive T, a non-positive s, a negative clause count or
\* message_size = 0, the first fit never gets to evaluate an example.
InvalidConfigRejected == InvalidConfig(cfg) => cfg_pc # "evaluating"


(***************************************************************************)
(* Readout and target encoding.                                            *)
(***************************************************************************)
Predicted == result.op = "predict"
Encoded == result.op = "fit"
OneHot(c) == [o \in 0 .. 1 |-> IF o = c THEN 1 ELSE 0]

\* C11: predict depends on the class sums only. Multi-class: the class with the
\* largest sum, the lowest index among equals. Multi-output and single output:
\* 1 / true exactly when the sum is >= 0.
PredictReadsScore ==
    Predicted =>
        \A ex \in DOMAIN call.arg :
            LET row == call.arg[ex]
                p == result.value[ex]
            IN  CASE call.kind = "multiclass" ->
                        /\ p \in DOMAIN row
                        /\ \A c \in DOMAIN row : row[c] <= row[p] /\ (c < p => row[c] < row[p])
                  [] call.kind = "multioutput" ->
                        \A o \in DOMAIN row : p[o] \in {0, 1} /\ (p[o] = 1 <=> row[o] >= 0)
                  [] call.kind = "single" -> p \in BOOLEAN /\ (p <=> row[0] >= 0)

PredictedOnTie ==
    /\ Predicted
    /\ call.kind = "multiclass"
    /\ call.arg[1][1] = call.arg[1][2]
    /\ call.arg[1][0] < call.arg[1][1]
    /\ result.value[1] = 1

\* C12: the encoded targets are +T where the label is the class (multi-class, one
\* column per class 0..max(Y), so exactly one +T per row) or where the label bit
\* is 1 (multi-output, single output), and -T everywhere else.
TargetsEncoded ==
    Encoded =>
        \A i \in DOMAIN call.arg :
            LET y == call.arg[i]
                enc == result.value[i]
            IN  CASE call.kind = "multiclass" ->
                        /\ DOMAIN enc = 0 .. Max({call.arg[j] : j \in DOMAIN call.arg})
                        /\ \A c \in DOMAIN enc : enc[c] = IF y = c THEN T ELSE -T
                        /\ Cardinality({c \in DOMAIN enc : enc[c] = T}) = 1
                  [] call.kind = "multioutput" ->
                        /\ DOMAIN enc = DOMAIN y
                        /\ \A o \in DOMAIN y : enc[o] = IF y[o] = 1 THEN T ELSE -T
                  [] call.kind = "single" -> enc = IF y = 1 THEN T ELSE -T

EncodedWithEmptyClass ==
    /\ Encoded
    /\ call.kind = "multiclass"
    /\ {call.arg[j] : j \in DOMAIN call.arg} = {0, 2}
    /\ \A i \in DOMAIN call.arg : result.value[i][1] = -T

\* C13 (as claimed): for every pair of class sums, the multi-output readout is the
\* one-hot encoding of the multi-class readout.
ReadoutsAgree ==
    (Predicted /\ call.kind = "multioutput") =>
        \A ex \in DOMAIN call.arg : result.value[ex] = OneHot(argmax(call.arg[ex]))

\* C13 (amended): the multi-output readout is the one-hot encoding of the
\* multi-class readout exactly when one of the two sums is >= 0 and the other
\* is negative; two sums >= 0 read (1, 1) and two negative sums read (0, 0).
ReadoutsAgreeOnOppositeSigns ==
    (Predicted /\ call.kind = "multioutput") =>
        \A ex \in DOMAIN call.arg :
            LET row == call.arg[ex]
            IN  /\ (result.value[ex] = OneHot(argmax(row))) <=> ((row[0] >= 0) # (row[1] >= 0))
                /\ (row[0] >= 0 /\ row[1] >= 0) => result.value[ex] = [o \in 0 .. 1 |-> 1]
                /\ (row[0] < 0 /\ row[1] < 0) => result.value[ex] = [o \in 0 .. 1 |-> 0]

ReadoutsOnBothCases ==
    /\ Predicted
    /\ call.kind = "multioutput"
    /\ call.arg[1] = [o \in 0 .. 1 |-> IF o = 0 THEN 0 ELSE -T]
    /\ call.arg[2] = [o \in 0 .. 1 |-> T]
    /\ result.value[1] = OneHot(0)
    /\ result.value[2] # OneHot(0)

\* C14: once the constructor has returned, every row of the hypervector table holds
\* message_bits pairwise distinct positions of [0, message_size), in the random mode
\* and in the double hashing mode.
HypervectorRowsDistinct ==
    cfg_pc \in {"constructed", "evaluating"} =>
        \A i \in 0 .. cfg.number_of_clauses - 1 :
            LET row == self_hypervectors[i]
            IN  /\ Len(row) = EffectiveMessageBits(cfg)
                /\ \A b \in 1 .. Len(row) : row[b] \in 0 .. cfg.message_size - 1
                /\ \A b, c \in 1 .. Len(row) : b # c => row[b] # row[c]


(***************************************************************************)
(* Properties of the kernel sequence (SpecKernels).                        *)
(***************************************************************************)
RoundKernels ==
    {"prepare_messages", "exchange_messages", "encode_messages",
     "calculate_messages_conditional"}

\* a call is being followed, and the graph set it works on
Running == pc = "fit" \/ k_call # NoCall
\* the running loop iteration has executed its last statement
ExampleDone == Running /\ k_todo = <<>> /\ k_log # <<>> /\ CurrentExample >= 1

LaunchedInExample(kernel, d) ==
    \E i \in DOMAIN k_log :
        k_log[i].st = "launch" /\ k_log[i].kernel = kernel /\ k_log[i].d = d

\* C15: on a graph set without any edge and a model with depth > 1, fit and
\* score are never stuck before their return, the edge buffer bound to the
\* role has at least one byte, every example runs the four kernels of each
\* of its depth-1 message rounds, and no node ever receives a message bit.
ZeroEdgeGraphsRun ==
    (depth > 1 /\ Running /\ edge_nbytes(CurrentGraphs) = 0) =>
        /\ ENABLED NextKernels
        /\ \A r \in Roles : encoded_X_gpu[r] # 0 => edge_gpu[r] >= 1
        /\ \A n \in DOMAIN clause_X_int_gpu : clause_X_int_gpu[n] = {}
        /\ \A d \in DOMAIN clause_X_gpu : \A n \in DOMAIN clause_X_gpu[d] :
              \A k \in 0 .. message_size - 1 : ~clause_X_gpu[d][n][k]
        /\ ExampleDone =>
              \A d \in 1 .. depth - 1 : \A kernel \in RoundKernels :
                  LaunchedInExample(kernel, d)

\* fit and then score have returned on the graph set without edges, depth > 1
ZeroEdgeScored ==
    /\ depth > 1
    /\ k_called = {"fit", "inference"}
    /\ k_call = NoCall
    /\ pc = "idle"
    /\ op = "score"
    /\ ret # NoResult
    /\ ret.graphs = 3
    /\ encoded_X_gpu = [r \in Roles |-> 3]
    /\ edge_nbytes(3) = 0

RoundOrder ==
    <<"prepare_messages", "exchange_messages", "encode_messages",
      "calculate_messages_conditional">>
\* the launches depth-1 complete message rounds consist of, as <<kernel, round>>
ExpectedRoundLaunches(dpt) ==
    [i \in 1 .. 4 * (dpt - 1) |-> <<RoundOrder[((i - 1) % 4) + 1], ((i - 1) \div 4) + 1>>]

IsRoundLaunch(x) == x.st = "launch" /\ x.kernel \in RoundKernels
IsEvaluationLaunch(x) ==
    x.st = "launch" /\ x.kernel \in RoundKernels \cup {"calculate_messages", "evaluate"}
\* the round kernels the running example has launched so far, in launch order
RoundLaunches ==
    LET sel == SelectSeq(k_log, IsRoundLaunch)
    IN  [i \in DOMAIN sel |-> <<sel[i].kernel, sel[i].d>>]
LayerZeroLaunches ==
    {i \in DOMAIN k_log : k_log[i].st = "launch" /\ k_log[i].kernel = "calculate_messages"}
IsPrefix(a, b) == Len(a) <= Len(b) /\ \A i \in DOMAIN a : a[i] = b[i]

\* C16: one evaluation launches the layer-zero kernel once, before any round
\* kernel, and then the kernels of exactly depth-1 rounds, each round as
\* prepare, exchange, encode, conditional re-evaluation in that order; between
\* two launches of the evaluation there is a synchronization; with depth = 1
\* no round kernel is launched.
EvaluationRunsRounds ==
    /\ Cardinality(LayerZeroLaunches) <= 1
    /\ IsPrefix(RoundLaunches, ExpectedRoundLaunches(depth))
    /\ \A i \in DOMAIN k_log :
          IsRoundLaunch(k_log[i]) => \E j \in LayerZeroLaunches : j < i
    /\ \A i, j \in DOMAIN k_log :
          (i < j /\ IsEvaluationLaunch(k_log[i]) /\ IsEvaluationLaunch(k_log[j])) =>
             \E m \in i + 1 .. j - 1 : k_log[m].st = "synchronize"
    /\ ExampleDone =>
          /\ Cardinality(LayerZeroLaunches) = 1
          /\ RoundLaunches = ExpectedRoundLaunches(depth)
          /\ depth = 1 => RoundLaunches = <<>>

\* an example of a depth-3 model has been evaluated: two complete rounds
TwoRoundsEvaluated == ExampleDone /\ depth = 3 /\ Len(RoundLaunches) = 8

\* the kernels that are handed the final clause-node output of an evaluation
FinalReaders == {"evaluate", "select_clause_node", "transform", "transform_nodewise"}
\* the launch that writes a clause-node output buffer last in one evaluation
LastWriterStamp ==
    IF depth = 1 THEN Stamp("calculate_messages", 0)
    ELSE Stamp("calculate_messages_conditional", depth - 1)
\* the buffer the latest logged launch that writes a clause-node output wrote
LastWritten ==
    LET W == {j \in DOMAIN k_log : k_log[j].writes # "none"}
    IN  IF W = {} THEN "none" ELSE k_log[Max(W)].writes

\* C17: the buffer handed to the evaluate kernel, the buffer _evaluate
\* returns, and the buffer the caller hands to select_clause_node or to the
\* transform kernel is the buffer written last: by the layer-zero kernel of
\* this example when depth = 1, by the conditional re-evaluation of round
\* depth-1 of this example when depth > 1.
FinalBufferIsLatest ==
    /\ \A i \in DOMAIN k_log :
          (k_log[i].st = "launch" /\ k_log[i].kernel \in FinalReaders) =>
             /\ k_log[i].reads = LastWritten
             /\ clause_node_output_gpu[k_log[i].reads].by = LastWriterStamp
    /\ (Running /\ returned_clause_node_output # "none") =>
          /\ returned_clause_node_output = LastWritten
          /\ clause_node_output_gpu[returned_clause_node_output].by = LastWriterStamp

\* after a fit, transform on a depth-2 model has launched its kernel on the
\* buffer the single round wrote
TransformReadsRoundOutput ==
    /\ depth = 2
    /\ k_called = {"fit", "inference"}
    /\ k_call # NoCall
    /\ k_call.fn = "transform"
    /\ LaunchedInExample("transform", 0)
    /\ returned_clause_node_output = "next"

\* the logged launch of `kernel' in round d of the running example
LaunchEntries(kernel, d) ==
    {x \in {k_log[i] : i \in DOMAIN k_log} :
        x.st = "launch" /\ x.kernel = kernel /\ x.d = d}

\* C18: in every message round the conditional re-evaluation reads one of
\* the two buffers and writes the other, exchange reads the buffer the
\* conditional re-evaluation of the same round reads, and that buffer is the
\* one the previous round (the layer-zero kernel for round 1) wrote; the
\* layer-zero kernel of every example writes the buffer passed in as current,
\* whatever the number of swaps of the example before.
PingPongBuffers ==
    /\ \A x \in LaunchEntries("calculate_messages", 0) : x.writes = "current"
    /\ \A d \in 1 .. depth - 1 :
          /\ \A x \in LaunchEntries("calculate_messages_conditional", d) :
                /\ x.reads \in Buffers /\ x.writes \in Buffers
                /\ x.reads # x.writes
                /\ \A y \in LaunchEntries("exchange_messages", d) : y.reads = x.reads
          /\ \A y \in LaunchEntries("exchange_messages", d) :
                IF d = 1
                THEN \A x \in LaunchEntries("calculate_messages", 0) : y.reads = x.writes
                ELSE \A x \in LaunchEntries("calculate_messages_conditional", d - 1) :
                        y.reads = x.writes

\* the second example of a fit with a single round per example (one swap in
\* the example before) has run its round
SecondExampleAfterOddSwaps ==
    /\ pc = "fit"
    /\ depth = 2
    /\ e = 2
    /\ ExampleDone
    /\ LaunchEntries("calculate_messages_conditional", 1) # {}

\* position of the logged launch of `kernel' (round d) in the running example, 0: not launched
LaunchIndex(kernel, d) ==
    LET I == {i \in DOMAIN k_log :
                 k_log[i].st = "launch" /\ k_log[i].kernel = kernel /\ k_log[i].d = d}
    IN  IF I = {} THEN 0 ELSE Max(I)
\* `first' has been launched and synchronized when `second' is launched
Precedes(first, second) ==
    second > 0 =>
        /\ 0 < first /\ first < second
        /\ \E m \in first + 1 .. second - 1 : k_log[m].st = "synchronize"

LaunchOrCopyStep ==
    /\ k_todo # <<>>
    /\ Head(k_todo).st \in {"launch", "memcpy_htod", "memcpy_dtoh", "bind"}
    /\ k_todo' = Tail(k_todo)
\* a loop iteration of _fit has executed its last statement
FitExampleOver == pc = "fit" /\ k_todo = <<>> /\ e >= 1

\* C20: in fit (_init_fit included) and in _evaluate no kernel is launched
\* and no copy is made while a kernel launched before is not synchronized,
\* and when a training example is over none of its kernels is still running.
LaunchesBarrierSeparated ==
    /\ [][(LaunchOrCopyStep /\ Head(k_todo).fn \in {"_init_fit", "_fit", "_evaluate"})
             => in_flight = {}]_vars
    /\ [](FitExampleOver => in_flight = {})

\* C20, as the code has it: the barrier after every launch holds in the
\* example loop of _fit and in _evaluate; in _init_fit the prepare kernels of
\* a first fit are launched one after the other without a barrier between
\* them, and are synchronized once before the graph set is copied.
ExampleLaunchesBarrierSeparated ==
    /\ [][(LaunchOrCopyStep /\ Head(k_todo).fn \in {"_fit", "_evaluate"})
             => in_flight = {}]_vars
    /\ [][(LaunchOrCopyStep /\ Head(k_todo).fn = "_init_fit") =>
             IF Head(k_todo).st = "launch"
             THEN in_flight \subseteq {"prepare", "prepare_message_ta_state"}
             ELSE in_flight = {}]_vars
    /\ [](FitExampleOver => in_flight = {})

\* the second example of a first fit with depth > 1 starts with nothing in flight
SecondExampleStarts ==
    /\ pc = "fit"
    /\ depth > 1
    /\ e = 2
    /\ Len(k_log) = 1
    /\ in_flight = {}

\* the loop iterations of fit(graphs, Y, epochs) on n graphs, as <<epoch, e>>, e from 1
ExpectedSteps(epochs, n) ==
    [i \in 1 .. epochs * n |-> <<(i - 1) \div n, ((i - 1) % n) + 1>>]
\* a step that starts a loop iteration of the running fit
StartsExample == pc = "fit" /\ pc' = "fit" /\ k_steps' # k_steps

\* C21: fit starts its loop iterations in the order epoch by epoch, example
\* by example; an iteration after the first starts only when every statement
\* of the iteration before it, its update launches included, has been
\* executed and synchronized; fit returns when exactly epochs x
\* number_of_graphs iterations have been started (none for epochs = 0); and a
\* fit that has been called returns.
FitRunsEveryExample ==
    /\ [](pc = "fit" =>
             IsPrefix(k_steps, ExpectedSteps(fit_epochs, number_of_graphs(fit_graphs))))
    /\ [][(pc = "fit" /\ pc' = "idle") =>
             k_steps = ExpectedSteps(fit_epochs, number_of_graphs(fit_graphs))]_vars
    /\ [][(StartsExample /\ k_steps # <<>>) =>
             /\ k_todo = <<>>
             /\ in_flight = {}
             /\ LaunchIndex("update", 0) > 0
             /\ \A d \in 1 .. depth - 1 : LaunchIndex("update_message", d) > 0]_vars
    /\ (pc = "fit") ~> (pc = "idle")

\* the last iteration of a fit with two epochs on two graphs is over
TwoEpochsDone ==
    /\ pc = "fit"
    /\ fit_epochs = 2
    /\ number_of_graphs(fit_graphs) = 2
    /\ Len(k_steps) = 4
    /\ k_todo = <<>>

\* the pending statement launches a kernel of _evaluate
EvaluationLaunchPending ==
    /\ Running
    /\ k_todo # <<>>
    /\ Head(k_todo).st = "launch"
    /\ Head(k_todo).fn = "_evaluate"

\* C22: at every kernel launch of an evaluation pass, up to and including the
\* launch of the evaluate kernel that accumulates the votes, the class sums on
\* the device are all zero, in fit, score, transform and transform_nodewise
\* alike; once the evaluate kernel of a training example has run and until the
\* weights are moved, the class sums are the votes of that example under the current
\* automata and weights; and the class sums an inference call has copied to the host
\* are, example by example, those of the example alone under the current automata
\* and weights.
ClassSumStartsAtZero ==
    /\ EvaluationLaunchPending => class_sum_gpu = [o \in Outputs |-> 0]
    /\ (pc = "fit" /\ LaunchIndex("evaluate", 0) > 0
           /\ LaunchIndex("select_clause_updates", 0) = 0) =>
          class_sum_gpu =
             _evaluate(ta_state_gpu, message_ta_state_gpu, clause_weights_gpu,
                       number_of_literals, depth, fit_graphs, e).class_sum
    /\ k_call # NoCall =>
          \A ex \in 1 .. Len(k_host.class_sum) :
              k_host.class_sum[ex] = _score(k_call.graphs)[ex]

\* the second example of an inference call is about to be evaluated after the
\* first one received votes
SecondEvaluationAfterVotes ==
    /\ k_call # NoCall
    /\ k_e = 2
    /\ Len(k_host.class_sum) = 1
    /\ k_host.class_sum[1][0] # 0
    /\ EvaluationLaunchPending
    /\ Head(k_todo).kernel = "evaluate"

SelectionLaunches ==
    {i \in DOMAIN k_log : k_log[i].st = "launch" /\ k_log[i].kernel = "select_clause_updates"}
\* the s of layer i as the constructor call gave it
GivenS(i) == IF cfg.s.tuple THEN cfg.s.value[i] ELSE cfg.s.value[0]
SameExampleStep == pc = "fit" /\ pc' = "fit" /\ k_log' # <<>>

\* C23: a training example launches select_clause_updates exactly once; the
\* update of the surface layer and the update of every message layer are
\* launched after it, on the same clause-update table and the same
\* representative-node table, and neither table changes between the selection
\* and the end of the example; the surface update is given s[0] and the surface
\* store, the update of message layer d (1-based round d) is given the s of index
\* d, message store d and the encoded messages of round d, which nothing rewrites
\* after round d of the same example encoded them; a scalar s is given to every
\* layer.
OneSelectionGatesAllUpdates ==
    /\ [](pc = "fit" =>
            /\ Cardinality(SelectionLaunches) <= 1
            /\ ExampleDone => Cardinality(SelectionLaunches) = 1
            /\ \A i \in DOMAIN k_log :
                  (k_log[i].st = "launch" /\ k_log[i].kernel \in {"update", "update_message"}) =>
                      /\ \E j \in SelectionLaunches : j < i
                      /\ k_log[i].args.clause_node = "clause_node_gpu"
                      /\ k_log[i].args.class_clause_update = "class_clause_update_gpu"
                      /\ k_log[i].args.s = GivenS(k_log[i].d)
                      /\ k_log[i].args.ta =
                            IF k_log[i].kernel = "update" THEN <<"ta_state_gpu", 0>>
                            ELSE <<"message_ta_state_gpu", k_log[i].d>>
                      /\ k_log[i].args.X =
                            IF k_log[i].kernel = "update" THEN <<"encoded_X_train_gpu", 0>>
                            ELSE <<"clause_X_train_gpu", k_log[i].d>>)
    /\ [][(SameExampleStep /\ SelectionLaunches # {}) =>
              UNCHANGED <<class_clause_update_gpu, clause_node_gpu>>]_vars
    /\ [][\A d \in 1 .. depth - 1 :
              (SameExampleStep /\ LaunchIndex("encode_messages", d) > 0) =>
                  clause_X_gpu'[d] = clause_X_gpu[d]]_vars

\* a training example of a depth-3 model built with a tuple s has updated both
\* message layers
BothMessageLayersUpdated ==
    /\ pc = "fit"
    /\ depth = 3
    /\ cfg.s.tuple
    /\ ExampleDone
    /\ LaunchIndex("update_message", 1) > 0
    /\ LaunchIndex("update_message", 2) > 0

\* _init_fit is about to bind the graph set: its kernel launches are behind it
InitFitKernelsDone ==
    /\ pc = "fit"
    /\ k_todo # <<>>
    /\ Head(k_todo).st = "bind"

\* C24: initialized, once true, stays true through every later fit, get_state
\* and set_state; it becomes true only in a fit call, and every fit call leaves
\* it true; _init_fit takes the initializing branch only while initialized is
\* false, so _init runs at most once; and on that first fit, when _init_fit
\* goes on to bind the graph set (before any example is evaluated), the
\* surface automaton store, the weights and each of the depth-1 message
\* automaton stores have been prepared and no kernel is unsynchronized.
InitializedOnce ==
    /\ [][initialized => initialized']_vars
    /\ [][(~initialized /\ initialized') => (op' = "fit" /\ pc' = "fit")]_vars
    /\ [][(pc = "idle" /\ pc' = "fit") =>
              /\ initialized'
              /\ fit_branch' = "init" <=> ~initialized]_vars
    /\ []((InitFitKernelsDone /\ fit_branch = "init") =>
              /\ in_flight = {}
              /\ ta_state_gpu # EmptyArray
              /\ clause_weights_gpu # EmptyArray
              /\ DOMAIN message_ta_state_gpu = 1 .. depth - 1
              /\ \A d \in 1 .. depth - 1 : message_ta_state_gpu[d] # EmptyArray)
    /\ []((pc = "fit" /\ k_steps # <<>>) =>
              /\ ta_state_gpu # EmptyArray
              /\ clause_weights_gpu # EmptyArray
              /\ \A d \in 1 .. depth - 1 : message_ta_state_gpu[d] # EmptyArray)

\* the first fit of a depth-2 model has prepared its stores and evaluates its
\* first example
FirstFitEvaluates ==
    /\ pc = "fit"
    /\ fit_branch = "init"
    /\ depth = 2
    /\ initialized
    /\ k_steps = << <<0, 1>> >>
    /\ LaunchIndex("evaluate", 0) > 0

\* C25: between calls, a host copy of the automata or of the weights that is
\* not empty equals the device store it was copied from; hence what get_state
\* returns are the current device automata and weights, the tuple a get_state
\* call just returned holds them, and a ta_action(0, clause, ta) call just made
\* reported the action of the current device automaton.
CacheNeverStale ==
    pc = "idle" =>
        /\ ta_state # EmptyArray => ta_state = ta_state_gpu
        /\ clause_weights # EmptyArray => clause_weights = clause_weights_gpu
        /\ ta_state_gpu # EmptyArray =>
              /\ get_state_value.ta_state = ta_state_gpu
              /\ get_state_value.clause_weights = clause_weights_gpu
        /\ op = "get_state" =>
              /\ held.ta_state = ta_state_gpu
              /\ held.clause_weights = clause_weights_gpu
        /\ (op = "ta_action" /\ ret.depth = 0) =>
              ret.value = action(ta_state_gpu[ret.clause], ret.ta)

\* ta_action(0, ...) answered from a host copy fetched after the device store
\* moved away from an earlier snapshot, the weights not being cached
ActionReadAfterChange ==
    /\ op = "ta_action"
    /\ ret.depth = 0
    /\ ta_state # EmptyArray
    /\ clause_weights = EmptyArray
    /\ held # NoState
    /\ held.ta_state # ta_state_gpu

\* C26: the two array objects inside a tuple the caller kept from get_state
\* hold, whatever fit, score, ta_action and get_state calls follow, the
\* automata and the weights they held when the tuple was returned; and the
\* arrays self.ta_state and self.clause_weights refer to hold the values the
\* model reads from them.
SnapshotIsolated ==
    /\ host_arrays.snapshot.taken =>
          /\ host_arrays.objects[host_arrays.snapshot.ta_state] = host_arrays.snapshot.ta_value
          /\ host_arrays.objects[host_arrays.snapshot.clause_weights] =
                host_arrays.snapshot.w_value
    /\ (pc = "idle" /\ ta_state # EmptyArray) =>
          host_arrays.objects[host_arrays.ta_state] = ta_state
    /\ (pc = "idle" /\ clause_weights # EmptyArray) =>
          host_arrays.objects[host_arrays.clause_weights] = clause_weights

\* after a tuple was kept, a later get_state has fetched other automata into
\* other arrays
LaterFetchDiffers ==
    /\ host_arrays.snapshot.taken
    /\ op = "get_state"
    /\ host_arrays.ta_state # host_arrays.snapshot.ta_state
    /\ ta_state # host_arrays.snapshot.ta_value

\* C27: on an initialized instance the number of outputs the host works with
\* (self.number_of_outputs: the columns of encoded_Y, of the class sums and of
\* score's result) is the number of outputs the kernels were built for and the
\* weight, class-sum and clause-update buffers were allocated for.
OutputCountsAgree ==
    initialized =>
        /\ outputs.encoded_Y = outputs.number_of_outputs
        /\ outputs.number_of_outputs = outputs.CLASSES
        /\ outputs.number_of_outputs = outputs.clause_weights_gpu
        /\ outputs.number_of_outputs = outputs.class_sum_gpu
        /\ outputs.number_of_outputs = outputs.class_clause_update_gpu

\* the last call was set_state, on an instance that has never been fitted
RestoredFresh == op = "set_state" /\ ~initialized

\* C28: after set_state on an instance that has never been fitted, a score
\* call is answered (from the restored automata and weights) instead of
\* ending the process, and a fit(incremental=True) call starts its first
\* example on the restored automata and weights.
RestoredStateIsUsed ==
    /\ [][(RestoredFresh /\ op' = "score") =>
              /\ pc' # "exit"
              /\ ret' # NoResult]_vars
    /\ [][(RestoredFresh /\ op' = "fit" /\ fit_incremental') =>
              /\ ta_state_gpu' = held.ta_state
              /\ clause_weights_gpu' = held.clause_weights]_vars

\* the store a ta_action call addresses: the surface store for depth 0, message
\* store depth-1 (the depth-th of the list) otherwise
AddressedStore ==
    IF call.depth = 0 THEN call.inst.ta_state_gpu
    ELSE call.inst.message_ta_state_gpu[call.depth]

\* C29: ta_action(depth, clause, ta) returns whether the automaton of (clause,
\* ta) in the addressed store is in the upper half of its states, i.e. its
\* most significant state bit; that is bit ta mod 32 of the word with indices
\* [clause][ta div 32][number_of_state_bits-1] of the store; and the number of
\* chunks of a store is the number of its literals divided by 32, rounded up.
ActionIsTopStateBit ==
    (call.fn = "ta_action" /\ result # NoResult) =>
        LET st == AddressedStore
            chunks == number_of_chunks(st.literals)
        IN  /\ result.value = (st.value[call.clause][call.ta] >= Pow2(st.bits - 1))
            /\ result.value =
                  (call.ta % 32 \in
                      packed_store(st)[(call.clause * chunks + call.ta \div 32) * st.bits
                                       + st.bits - 1])
            /\ chunks * 32 >= st.literals
            /\ (chunks - 1) * 32 < st.literals

\* an include action read from the second chunk of a message store whose
\* automata have two state bits
SecondChunkIncludeRead ==
    /\ call.fn = "ta_action"
    /\ result # NoResult
    /\ call.depth = 1
    /\ call.ta = 33
    /\ AddressedStore.bits = 2
    /\ result.value

====
